---- MODULE Spec2Model ----
(***************************************************************************)
(* Model of the spreadsheet-taxonomy scripts: the LLM pipeline of main.py  *)
(* with llm_caller.py and utils.py, and the batch processor of             *)
(* ignore/batch_processor.py.                                              *)
(*                                                                         *)
(* A text (Python str) is a sequence of one-character strings, so that      *)
(* str.replace, str.join, str.splitlines and re.sub are modelled by what    *)
(* they do to the characters.                                              *)
(***************************************************************************)
EXTENDS Integers, Sequences, FiniteSets, TLC

VARIABLES
    \* ---- configuration read by utils.get_prompt
    prompts,          \* prompts.yaml: step name -> template text
    details,          \* prompt_details.yaml: key text -> value text
    \* ---- a call of one of the functions of utils.py / validate_truncation_fix.py
    u_call,           \* [fn, arg, result] of the last call, fn = "none" before any
    \* ---- main.py
    pc,               \* the statement main.py executes next
    RUN_STEP,         \* RUN_STEP2 .. RUN_STEP6, as a function 2..6 -> BOOLEAN
    folders,          \* os.listdir(INPUT_FOLDER), a list of folder names
    folder_i,         \* position of the for loop of step 2 in folders
    fs,               \* the files of OUTPUT_FOLDER: name -> text, or NoFile
    keywords,         \* main.py's keywords (list of lines)
    keywords_sample,  \* main.py's keywords_sample (a text)
    i,                \* main.py's i, the loop variable of step 3
    codes,            \* main.py's codes (list of lines)
    themes,           \* main.py's themes (list of lines)
    request,          \* the payload of the latest llm_call, stage "none" before any
    chunks,           \* the chunk argument of every create_codes call so far
    trace,            \* the calls, sleeps and file reads executed so far
    raised,           \* the exception that ended the run, or "none"
    fs0,              \* the files of OUTPUT_FOLDER as they were when the run began
    replies,          \* the stage and the content of every llm_call result so far
    \* ---- ignore/batch_processor.py
    b_pc,             \* position of process_all_files
    excel_files,      \* the list process_all_files iterates
    b_k,              \* position of the for loop in excel_files
    processed_files,  \* process_all_files' processed_files
    failed_files,     \* process_all_files' failed_files
    b_attempts,       \* the files handed to process_single_file, in order
    b_steps,          \* the steps process_single_file ran for the latest file
    b_log,            \* the messages written by self.log, in order
    b_summary,        \* every summary generate_processing_summary has written
    \* ---- a call of remove_formatting (workbook_extractor.py)
    rf_pc,            \* "call" before the call, "returned" after it
    sheet_json_arg,   \* the sheet JSON as it was when the call was made
    sheet_json,       \* the sheet JSON object, which the call changes in place
    \* ---- a call of generate_moonshot_test_cases (moonshot_basic_import.py)
    ms_pc,               \* position of generate_moonshot_test_cases
    workbook_dir,        \* names of the files present in WORKBOOK_DIR
    filtered_data,       \* the cleared rows of MoonshotBasic.xlsx
    ms_idx,              \* position of the for loop in filtered_data
    existing_workbooks,  \* the set existing_workbooks
    valid_test_cases,    \* the list valid_test_cases
    skipped_cases,       \* the list skipped_cases
    ms_json,             \* what was written to MoonshotBasic.json, one entry per dump
    \* ---- a call of extract_images_from_excel (workbook_extractor.py)
    img_pc,            \* position of extract_images_from_excel
    img_workbook,      \* the loaded workbook: its sheets in order, each with _images
    img_sheet,         \* position of the loop over workbook.sheetnames
    img_k,             \* position of the loop over worksheet._images
    image_count,       \* the counter image_count
    extracted_images,  \* the list extracted_images
    image_files,       \* the files of the images folder: filename -> bytes
    img_returned,      \* the returned list, in a one-element list; <<>> before the return
    \* ---- a call of ExcelExtractor.extract_file (ignore/excel_extractor.py)
    ex_pc,             \* the statement extract_file executes next
    ex_wb,             \* the workbook of the Excel file: its sheets and its VBA part
    ex_dir,            \* the files below output_dir, as paths relative to it
    ex_trace,          \* the steps begun so far, each with the files it wrote
    ex_summary,        \* files_created of each summary report written
    ex_open,           \* whether the workbook is "unloaded", "open" or "closed"
    ex_raised          \* the step whose exception reached the caller, or "none"

utils_vars == <<prompts, details, u_call>>
main_vars  == <<pc, RUN_STEP, folders, folder_i, fs, keywords, keywords_sample,
                i, codes, themes, request, chunks, trace, raised, fs0, replies>>
batch_vars == <<b_pc, excel_files, b_k, processed_files, failed_files,
                b_attempts, b_steps, b_log, b_summary>>
rf_vars    == <<rf_pc, sheet_json_arg, sheet_json>>
ms_vars    == <<ms_pc, workbook_dir, filtered_data, ms_idx, existing_workbooks,
                valid_test_cases, skipped_cases, ms_json>>
img_vars   == <<img_pc, img_workbook, img_sheet, img_k, image_count, extracted_images,
                image_files, img_returned>>
ex_vars    == <<ex_pc, ex_wb, ex_dir, ex_trace, ex_summary, ex_open, ex_raised>>
lib_vars   == <<rf_vars, ms_vars, img_vars, ex_vars>>
vars == <<utils_vars, main_vars, batch_vars, lib_vars>>

-----------------------------------------------------------------------------
(* Bounds of the model *)

MaxTemplateLen == 4      \* longest template drawn for get_prompt
MaxFolders == 1          \* most spreadsheet folders in INPUT_FOLDER
MaxFullChunks == 1       \* most full chunks of keywords in keywords.txt
MaxFiles == 3            \* most Excel files in the batch processor's input
MaxCellKeys == 2         \* most keys of a cell of a sheet JSON
MaxRows == 2             \* most cleared rows of MoonshotBasic.xlsx
MaxSheetImages == 2      \* most images embedded in one worksheet
MaxPromptLines == 2      \* most lines of a list handed to a stage function

-----------------------------------------------------------------------------
(* Texts *)

NL == "\n"

Min(S) == CHOOSE x \in S : \A y \in S : x <= y

Indexes(s) == [k \in 1..Len(s) |-> k]

\* the concatenation of a list of texts
RECURSIVE Flatten(_)
Flatten(list) ==
    IF Len(list) = 0 THEN <<>>
    ELSE IF Len(list) = 1 THEN list[1]
    ELSE LET h == Len(list) \div 2
         IN  Flatten(SubSeq(list, 1, h)) \o Flatten(SubSeq(list, h + 1, Len(list)))

\* iterating a Python str yields its characters, each a str of length 1
Chars(s) == [k \in 1..Len(s) |-> <<s[k]>>]

\* sep.join(list)
Join(sep, list) ==
    Flatten([k \in 1..(2 * Len(list) - 1) |->
                IF k % 2 = 1 THEN list[(k + 1) \div 2] ELSE sep])

\* text.splitlines()
SplitLines(s) ==
    LET brk   == SelectSeq(Indexes(s), LAMBDA k : s[k] = NL)
        tail  == IF Len(s) > 0 /\ s[Len(s)] # NL THEN 1 ELSE 0
        n     == Len(brk) + tail
        from(k) == IF k = 1 THEN 1 ELSE brk[k - 1] + 1
        to(k)   == IF k <= Len(brk) THEN brk[k] - 1 ELSE Len(s)
    IN  [k \in 1..n |-> SubSeq(s, from(k), to(k))]

\* whether old occurs in s at position p
OccursAt(s, old, p) ==
    /\ p >= 1
    /\ p + Len(old) - 1 <= Len(s)
    /\ s[p] = old[1]
    /\ SubSeq(s, p, p + Len(old) - 1) = old

\* s.replace(old, new) for a non-empty old: every occurrence, left to right,
\* occurrences found in the original text only
RECURSIVE Replace(_, _, _)
Replace(s, old, new) ==
    LET occ == {p \in 1..Len(s) : OccursAt(s, old, p)}
    IN  IF occ = {} THEN s
        ELSE LET p == Min(occ)
             IN  SubSeq(s, 1, p - 1) \o new
                   \o Replace(SubSeq(s, p + Len(old), Len(s)), old, new)

-----------------------------------------------------------------------------
(* utils.py *)

PromptNotFound ==
    <<"P", "r", "o", "m", "p", "t", " ", "n", "o", "t", " ",
      "f", "o", "u", "n", "d", ".">>

\* step5 left at the default limit
get_max_tokens_for_step_low5(step) ==
    CASE step = "step2"  -> 1000
      [] step = "step3"  -> 2000
      [] step = "step4"  -> 2000
      [] step = "step5"  -> 2000
      [] step = "step6"  -> 4000
      [] step = "system" -> 500
      [] OTHER           -> 2000

\* step_token_limits.get(step, 2000)
get_max_tokens_for_step(step) ==
    CASE step = "step2"  -> 1000
      [] step = "step3"  -> 2000
      [] step = "step4"  -> 2000
      [] step = "step5"  -> 3000
      [] step = "step6"  -> 4000
      [] step = "system" -> 500
      [] OTHER           -> 2000

\* validate_fix(): the ImportError and Exception handlers are not reachable,
\* get_max_tokens_for_step exists and raises nothing
validate_fix ==
    LET concepts_tokens == get_max_tokens_for_step("step5")
        model_tokens    == get_max_tokens_for_step("step6")
    IN  concepts_tokens >= 3000 /\ model_tokens >= 4000

\* replace_placeholder(match): details.get(key, f"[{key}]")
replace_placeholder(det, key) ==
    IF key \in DOMAIN det THEN det[key] ELSE <<"[">> \o key \o <<"]">>

\* re.sub(r'\[([^\]]+)\]', replace_placeholder, prompt): the leftmost match starts
\* at the first "[" that is followed by at least one character other than "]"
\* and then by a "]"; the scan resumes after the match, in the original text
RECURSIVE re_sub(_, _)
re_sub(det, s) ==
    LET starts == {p \in 1..Len(s) :
                     /\ s[p] = "["
                     /\ p + 1 <= Len(s)
                     /\ s[p + 1] # "]"
                     /\ \E q \in (p + 2)..Len(s) : s[q] = "]"}
    IN  IF starts = {} THEN s
        ELSE LET p == Min(starts)
                 q == Min({r \in (p + 2)..Len(s) : s[r] = "]"})
             IN  SubSeq(s, 1, p - 1)
                   \o replace_placeholder(det, SubSeq(s, p + 1, q - 1))
                   \o re_sub(det, SubSeq(s, q + 1, Len(s)))

\* a second pass over the filled prompt
get_prompt_twice(pr, det, step) ==
    re_sub(det, re_sub(det, IF step \in DOMAIN pr THEN pr[step] ELSE PromptNotFound))

\* get_prompt(step), with the two yaml files as pr and det
get_prompt(pr, det, step) ==
    LET prompt == IF step \in DOMAIN pr THEN pr[step] ELSE PromptNotFound
    IN  re_sub(det, prompt)

-----------------------------------------------------------------------------
(* llm_caller.py *)

DATA     == <<"[", "d", "a", "t", "a", "]">>
KEYWORDS == <<"[", "k", "e", "y", "w", "o", "r", "d", "s", "]">>
CODES    == <<"[", "c", "o", "d", "e", "s", "]">>
THEMES   == <<"[", "t", "h", "e", "m", "e", "s", "]">>

SHEETJSON == <<"/", "s", "h", "e", "e", "t", "j", "s", "o", "n", ".", "j", "s", "o", "n">>

\* run_variant's payloads[0]: the system prompt, the user prompt, max_tokens 500
payload(stage, prompt) ==
    [stage      |-> stage,
     system     |-> get_prompt(prompts, details, "system"),
     user       |-> prompt,
     max_tokens |-> 500]

\* an open in "w" mode, which empties the file
opened_for_writing(files, name) ==
    [files EXCEPT ![name] = [exists |-> TRUE, text |-> <<>>]]

\* open(output_file, "a"): the file exists afterwards, its content is kept
opened(files, name) ==
    [files EXCEPT ![name] = [exists |-> TRUE, text |-> @.text]]

\* a write that replaces the content instead of appending to it
written_over(files, name, content) ==
    [files EXCEPT ![name] = [exists |-> TRUE, text |-> content \o <<NL>>]]

\* a write that puts the content in front of what the file holds
written_in_front(files, name, content) ==
    [files EXCEPT ![name] = [exists |-> TRUE, text |-> content \o <<NL>> \o @.text]]

\* output_file.write(f"{content}\n") on the file opened for appending
written(files, name, content) ==
    [files EXCEPT ![name] = [exists |-> TRUE, text |-> @.text \o content \o <<NL>>]]

\* create_keywords: data_file is the path of sheetjson.json, and the path is
\* what replaces [data]
create_keywords_prompt(folder_path, sheetjson) ==
    LET data_file == folder_path \o SHEETJSON
    IN  Replace(get_prompt(prompts, details, "step2"), DATA, data_file)

\* create_codes
create_codes_prompt(kws, data_sample) ==
    LET keywords_str == Join(<<NL>>, kws) \o <<NL>>
        data_str     == data_sample \o <<NL>>
    IN  Replace(Replace(get_prompt(prompts, details, "step3"), KEYWORDS, keywords_str),
                DATA, data_str)

\* create_themes: keywords_sample is a str, and "\n".join iterates its characters
create_themes_prompt(cds, kw_sample) ==
    LET sample_str == Join(<<NL>>, Chars(kw_sample)) \o <<NL>>
        codes_str  == Join(<<NL>>, cds) \o <<NL>>
    IN  Replace(Replace(get_prompt(prompts, details, "step4"), CODES, codes_str),
                KEYWORDS, sample_str)

\* create_concepts and create_conceptual_model (step is "step5" or "step6")
create_concepts_prompt(step, thms, cds, kw_sample) ==
    LET themes_str == Join(<<NL>>, thms) \o <<NL>>
        sample_str == Join(<<NL>>, Chars(kw_sample)) \o <<NL>>
        codes_str  == Join(<<NL>>, cds) \o <<NL>>
    IN  Replace(Replace(Replace(get_prompt(prompts, details, step), CODES, codes_str),
                        KEYWORDS, sample_str),
                THEMES, themes_str)

\* step3.py, run and create_codes: the keywords joined by newlines, then the
\* same two replace calls as create_codes of llm_caller.py
step3_create_codes_prompt(kws, data) ==
    Replace(Replace(get_prompt(prompts, details, "step3"), KEYWORDS, Join(<<NL>>, kws)),
            DATA, data)

\* result.response['choices'][0]['message']['content'] of the one result llm_call
\* yields for the one prompt: a one-line and a two-line answer
Responses == { <<"u">>, <<"v", NL, "w">> }

-----------------------------------------------------------------------------
(* main.py *)

INPUT_FOLDER ==
    <<"o", "r", "k", "n", "e", "y", "_", "s", "p", "r", "e", "a", "d",
      "s", "h", "e", "e", "t", "s", "_", "d", "a", "t", "a">>

KEYWORD_CHUNK_SIZE == 100

\* data_sample = "" (the loop that filled it is commented out)
data_sample == <<>>

FileNames == {"keywords.txt", "codes.txt", "themes.txt", "concepts.txt",
              "conceptual_model.txt"}

\* os.path.join(INPUT_FOLDER, folder)
folder_path(folder) == INPUT_FOLDER \o <<"/">> \o folder

\* a chunk that stops one keyword short of the next chunk's start
chunk_at_short(kws, j) ==
    IF j + KEYWORD_CHUNK_SIZE > Len(kws)
    THEN SubSeq(kws, j + 1, Len(kws))
    ELSE SubSeq(kws, j + 1, j + KEYWORD_CHUNK_SIZE - 1)

\* the chunk of the step 3 loop at loop variable j: keywords[j:] or
\* keywords[j:j + KEYWORD_CHUNK_SIZE]
chunk_at(kws, j) ==
    IF j + KEYWORD_CHUNK_SIZE > Len(kws)
    THEN SubSeq(kws, j + 1, Len(kws))
    ELSE SubSeq(kws, j + 1, j + KEYWORD_CHUNK_SIZE)

\* keywords_sample of lines 49-52
sample_of(kws) ==
    IF Len(kws) > KEYWORD_CHUNK_SIZE
    THEN Join(<<NL>>, SubSeq(kws, 1, KEYWORD_CHUNK_SIZE))
    ELSE Join(<<NL>>, kws)

\* create_codes not followed by the sleep (and the loop left)
after_call_no_sleep(stage) ==
    CASE stage = "step2" -> "step2_sleep"
      [] stage = "step3" -> "read_codes"
      [] stage = "step4" -> "read_themes"
      [] stage = "step5" -> IF RUN_STEP[6] THEN "step6" ELSE "done"
      [] stage = "step6" -> "done"

\* create_themes followed at once by the later stages, themes.txt not read again
after_call_no_read(stage) ==
    CASE stage = "step2" -> "step2_sleep"
      [] stage = "step3" -> "step3_sleep"
      [] stage = "step4" -> IF RUN_STEP[5] THEN "step5"
                            ELSE IF RUN_STEP[6] THEN "step6" ELSE "done"
      [] stage = "step5" -> IF RUN_STEP[6] THEN "step6" ELSE "done"
      [] stage = "step6" -> "done"

\* the statement that follows a stage call that returned
after_call(stage) ==
    CASE stage = "step2" -> "step2_sleep"
      [] stage = "step3" -> "step3_sleep"
      [] stage = "step4" -> "read_themes"
      [] stage = "step5" -> IF RUN_STEP[6] THEN "step6" ELSE "done"
      [] stage = "step6" -> "done"

\* the statement that follows the read of a hand-off file if no flag is tested
after_read_flags_ignored(name, lines) ==
    CASE name = "keywords.txt" -> IF Len(lines) > 0 THEN "step3" ELSE "read_codes"
      [] name = "codes.txt" -> "step4"
      [] name = "themes.txt" -> "step5"

\* the statement that follows the read of a hand-off file
after_read(name, lines) ==
    CASE name = "keywords.txt" ->
             IF RUN_STEP[3] /\ Len(lines) > 0 THEN "step3" ELSE "read_codes"
      [] name = "codes.txt" ->
             IF RUN_STEP[4] THEN "step4" ELSE "read_themes"
      [] name = "themes.txt" ->
             IF RUN_STEP[5] THEN "step5"
             ELSE IF RUN_STEP[6] THEN "step6" ELSE "done"

\* run(prompt, output_file): the file is opened for appending, the payload is
\* handed to llm_call, and either llm_call yields one result, whose content is
\* written followed by a newline, or it raises; nothing in run, in the stage
\* function or in main.py catches the exception, which ends the script
run(stage, event, name, prompt) ==
    /\ request' = payload(stage, prompt)
    /\ trace' = Append(trace, event)
    /\ \/ \E content \in Responses :
             /\ fs' = written(fs, name, content)
             /\ replies' = Append(replies, [stage |-> stage, content |-> content])
             /\ pc' = after_call(stage)
             /\ raised' = raised
       \/ /\ fs' = opened(fs, name)
          /\ replies' = replies
          /\ pc' = "aborted"
          /\ raised' = "llm_call"

\* with open(name, "r") as f: lines = f.read().splitlines()
\* (a missing file raises FileNotFoundError, which nothing catches)
CanRead(name) == fs[name].exists

ReadFails(name) ==
    /\ ~CanRead(name)
    /\ pc' = "aborted"
    /\ raised' = "FileNotFoundError"
    /\ trace' = Append(trace, "open failed")

\* lines 36-38: one iteration of the step 2 loop up to the return of create_keywords
Step2Call ==
    /\ pc = "step2"
    /\ LET folder == folders[folder_i]
       IN  run("step2", "create_keywords", "keywords.txt",
               create_keywords_prompt(folder_path(folder.name), folder.sheetjson))
    /\ UNCHANGED <<utils_vars, batch_vars, lib_vars, RUN_STEP, fs0, folders, folder_i, keywords,
                   keywords_sample, i, codes, themes, chunks>>

\* line 40: time.sleep(30), then the next folder or the end of the loop
Step2Sleep ==
    /\ pc = "step2_sleep"
    /\ trace' = Append(trace, "sleep")
    /\ folder_i' = folder_i + 1
    /\ pc' = IF folder_i + 1 <= Len(folders) THEN "step2" ELSE "read_keywords"
    /\ UNCHANGED <<utils_vars, batch_vars, lib_vars, RUN_STEP, fs0, folders, fs, keywords,
                   keywords_sample, i, codes, themes, request, chunks, raised, replies>>

\* lines 42-52: keywords and keywords_sample
ReadKeywords ==
    /\ pc = "read_keywords"
    /\ \/ /\ CanRead("keywords.txt")
          /\ LET lines == SplitLines(fs["keywords.txt"].text)
             IN  /\ keywords' = lines
                 /\ keywords_sample' = sample_of(lines)
                 /\ pc' = after_read("keywords.txt", lines)
          /\ i' = 0
          /\ trace' = Append(trace, "read keywords.txt")
          /\ raised' = raised
       \/ /\ ReadFails("keywords.txt")
          /\ UNCHANGED <<keywords, keywords_sample, i>>
    /\ UNCHANGED <<utils_vars, batch_vars, lib_vars, RUN_STEP, fs0, folders, folder_i, fs,
                   codes, themes, request, chunks, replies>>

\* lines 56-62: one iteration of the step 3 loop up to the return of create_codes
Step3Call ==
    /\ pc = "step3"
    /\ LET chunk == chunk_at(keywords, i)
       IN  /\ chunks' = Append(chunks, chunk)
           /\ run("step3", "create_codes", "codes.txt",
                  create_codes_prompt(chunk, data_sample))
    /\ UNCHANGED <<utils_vars, batch_vars, lib_vars, RUN_STEP, fs0, folders, folder_i, keywords,
                   keywords_sample, i, codes, themes>>

\* line 64: time.sleep(30), then the next value of range(0, len(keywords), 100)
Step3Sleep ==
    /\ pc = "step3_sleep"
    /\ trace' = Append(trace, "sleep")
    /\ i' = i + KEYWORD_CHUNK_SIZE
    /\ pc' = IF i + KEYWORD_CHUNK_SIZE < Len(keywords) THEN "step3" ELSE "read_codes"
    /\ UNCHANGED <<utils_vars, batch_vars, lib_vars, RUN_STEP, fs0, folders, folder_i, fs, keywords,
                   keywords_sample, codes, themes, request, chunks, raised, replies>>

\* lines 67-68
ReadCodes ==
    /\ pc = "read_codes"
    /\ \/ /\ CanRead("codes.txt")
          /\ LET lines == SplitLines(fs["codes.txt"].text)
             IN  /\ codes' = lines
                 /\ pc' = after_read("codes.txt", lines)
          /\ trace' = Append(trace, "read codes.txt")
          /\ raised' = raised
       \/ /\ ReadFails("codes.txt")
          /\ UNCHANGED codes
    /\ UNCHANGED <<utils_vars, batch_vars, lib_vars, RUN_STEP, fs0, folders, folder_i, fs, keywords,
                   keywords_sample, i, themes, request, chunks, replies>>

\* lines 70-72
Step4Call ==
    /\ pc = "step4"
    /\ run("step4", "create_themes", "themes.txt",
           create_themes_prompt(codes, keywords_sample))
    /\ UNCHANGED <<utils_vars, batch_vars, lib_vars, RUN_STEP, fs0, folders, folder_i, keywords,
                   keywords_sample, i, codes, themes, chunks>>

\* lines 75-76
ReadThemes ==
    /\ pc = "read_themes"
    /\ \/ /\ CanRead("themes.txt")
          /\ LET lines == SplitLines(fs["themes.txt"].text)
             IN  /\ themes' = lines
                 /\ pc' = after_read("themes.txt", lines)
          /\ trace' = Append(trace, "read themes.txt")
          /\ raised' = raised
       \/ /\ ReadFails("themes.txt")
          /\ UNCHANGED themes
    /\ UNCHANGED <<utils_vars, batch_vars, lib_vars, RUN_STEP, fs0, folders, folder_i, fs, keywords,
                   keywords_sample, i, codes, request, chunks, replies>>

\* lines 78-80
Step5Call ==
    /\ pc = "step5"
    /\ run("step5", "create_concepts", "concepts.txt",
           create_concepts_prompt("step5", themes, codes, keywords_sample))
    /\ UNCHANGED <<utils_vars, batch_vars, lib_vars, RUN_STEP, fs0, folders, folder_i, keywords,
                   keywords_sample, i, codes, themes, chunks>>

\* lines 82-84
Step6Call ==
    /\ pc = "step6"
    /\ run("step6", "create_conceptual_model", "conceptual_model.txt",
           create_concepts_prompt("step6", themes, codes, keywords_sample))
    /\ UNCHANGED <<utils_vars, batch_vars, lib_vars, RUN_STEP, fs0, folders, folder_i, keywords,
                   keywords_sample, i, codes, themes, chunks>>

-----------------------------------------------------------------------------
(* ignore/batch_processor.py *)

\* self.log(message): the message is appended to the log file.  Writing the log
\* is taken not to fail, so the handler of lines 69-72, which only an exception
\* escaping process_single_file's own handler could reach, is never entered.
logged(log, message, file) == Append(log, [message |-> message, file |-> file])

\* the places where process_single_file's try block can raise
Faults == {"none", "extract", "analyze", "summary_build", "summary_dump"}

\* the steps process_single_file starts for a file, given where it raises
steps_of(fault) ==
    CASE fault = "extract"       -> <<"extract_file">>
      [] fault = "analyze"       -> <<"extract_file", "analyze_excel_file">>
      [] fault = "summary_build" -> <<"extract_file", "analyze_excel_file",
                                      "generate_file_summary">>
      [] OTHER                   -> <<"extract_file", "analyze_excel_file",
                                      "generate_file_summary",
                                      "open file_summary.json">>

\* process_single_file(excel_file): True when the try block ran to its end,
\* False from the handler of line 101; with the log it leaves
process_single_file(log, file, fault) ==
    LET l1 == logged(log, "Extracting data from", file)
        l2 == IF fault = "extract" THEN l1 ELSE logged(l1, "Analyzing", file)
        l3 == IF fault = "none" THEN logged(l2, "Generated summary for", file)
              ELSE logged(l2, "Error in process_single_file", file)
    IN  [success |-> fault = "none", steps |-> steps_of(fault), log |-> l3]

\* the loop stops at the first file that fails
after_file_stop_on_failure(k, success) ==
    IF k + 1 > Len(excel_files) \/ ~success THEN "summary" ELSE "loop"

\* the statement after one iteration of the for loop over excel_files
after_file(k, success) ==
    IF k + 1 > Len(excel_files) THEN "summary" ELSE "loop"

\* lines 42-55: up to the first iteration, or the return for an empty folder
StartBatch ==
    /\ b_pc = "start"
    /\ LET l1 == logged(b_log, "Starting batch processing of Excel files", "")
       IN  IF excel_files = <<>>
           THEN /\ b_log' = logged(l1, "No Excel files found in the input folder", "")
                /\ b_pc' = "done"
           ELSE /\ b_log' = logged(l1, "Found Excel files to process", "")
                /\ b_pc' = "loop"
    /\ b_k' = 1
    /\ processed_files' = <<>>
    /\ failed_files' = <<>>
    /\ UNCHANGED <<utils_vars, main_vars, lib_vars, excel_files, b_attempts, b_steps, b_summary>>

\* lines 57-67: one iteration of the for loop
ProcessFile ==
    /\ b_pc = "loop"
    /\ \E fault \in Faults :
          LET file == excel_files[b_k]
              l1   == logged(b_log, "Processing", file)
              r    == process_single_file(l1, file, fault)
          IN  /\ b_attempts' = Append(b_attempts, [file |-> file, success |-> r.success])
              /\ b_steps' = r.steps
              /\ IF r.success
                 THEN /\ processed_files' = Append(processed_files, file)
                      /\ failed_files' = failed_files
                      /\ b_log' = logged(r.log, "Successfully processed", file)
                 ELSE /\ failed_files' = Append(failed_files, file)
                      /\ processed_files' = processed_files
                      /\ b_log' = logged(r.log, "Failed to process", file)
              /\ b_pc' = after_file(b_k, r.success)
    /\ b_k' = b_k + 1
    /\ UNCHANGED <<utils_vars, main_vars, lib_vars, excel_files, b_summary>>

\* a summary that counts only the processed files as the total
generate_processing_summary_short(processed, failed) ==
    [total_files            |-> Len(processed),
     processed_successfully |-> Len(processed),
     failed_processing      |-> Len(failed),
     success_rate           |-> IF Len(processed) > 0 \/ Len(failed) > 0
                                THEN <<Len(processed), Len(processed)>>
                                ELSE <<0, 1>>,
     processed_files        |-> processed,
     failed_files           |-> failed]

\* generate_processing_summary(processed_files, failed_files); success_rate is
\* kept as the pair <<numerator, denominator>> of the division, <<0, 1>> for 0
generate_processing_summary(processed, failed) ==
    [total_files            |-> Len(processed) + Len(failed),
     processed_successfully |-> Len(processed),
     failed_processing      |-> Len(failed),
     success_rate           |-> IF Len(processed) > 0 \/ Len(failed) > 0
                                THEN <<Len(processed), Len(processed) + Len(failed)>>
                                ELSE <<0, 1>>,
     processed_files        |-> processed,
     failed_files           |-> failed]

\* line 75
GenerateSummary ==
    /\ b_pc = "summary"
    /\ b_summary' = Append(b_summary,
                           generate_processing_summary(processed_files, failed_files))
    /\ b_log' = logged(logged(b_log, "Processing complete", ""), "Summary saved to", "")
    /\ b_pc' = "done"
    /\ UNCHANGED <<utils_vars, main_vars, lib_vars, excel_files, b_k, processed_files,
                   failed_files, b_attempts, b_steps>>

-----------------------------------------------------------------------------
(* workbook_extractor.py *)

\* A Python dict is a function from its keys; a list is a sequence.
EmptyDict == [k \in {} |-> ""]

\* del d[k] for every k of keys that is in d
DictDel(d, keys) == [k \in DOMAIN d \ keys |-> d[k]]

\* the dict of the items of d whose key is in keys
DictKeep(d, keys) == [k \in DOMAIN d \cap keys |-> d[k]]

\* A value that the code tests with isinstance(v, dict): Boxed(TRUE, d) is the
\* dict d, Boxed(FALSE, d) a value of another type.
Boxed(is_dict, d) == [is_dict |-> is_dict, items |-> d]

\* line 35 and lines 39-40
formatting_keys ==
    {"style", "font", "fill", "border", "alignment", "number_format", "protection"}

\* lines 33-43 without the keys past 'border' of formatting_keys
strip_cells_some_keys(cells) ==
    [r \in DOMAIN cells |->
        DictDel(cells[r], {"Format", "style", "font", "fill", "border"})]

\* lines 33-43: the loop over the cells of one worksheet
strip_cells(cells) ==
    [r \in DOMAIN cells |-> DictDel(cells[r], {"Format"} \cup formatting_keys)]

\* lines 46-48: empty_cells and their deletion
drop_empty_cells(cells) ==
    DictDel(cells, {r \in DOMAIN cells :
                        cells[r] = EmptyDict \/ "value" \notin DOMAIN cells[r]})

\* lines 60-68 and 71-78: chart['legend'] and chart['title']
essential(chart, key, props) ==
    IF key \in DOMAIN chart /\ chart[key].is_dict
    THEN [chart EXCEPT ![key] = Boxed(TRUE, DictKeep(@.items, props))]
    ELSE chart

\* lines 88-91
functional_props ==
    {"position", "visible", "numberFormat", "minimum", "maximum",
     "majorUnit", "minorUnit", "scaleType", "categoryType"}

\* lines 81-97: chart['axes']
clean_axes(chart) ==
    IF "axes" \in DOMAIN chart
    THEN [chart EXCEPT !["axes"] =
            [a \in DOMAIN @ |->
                IF @[a].is_dict
                THEN Boxed(TRUE, DictKeep(@[a].items, functional_props))
                ELSE @[a]]]
    ELSE chart

\* lines 103-106
series_formatting_keys ==
    {"format", "marker", "line", "fill", "smooth", "dataLabels",
     "trendline", "errorBars", "pictureOptions"}

\* lines 112-115
essential_series_props ==
    {"idx", "order", "title", "categories", "values", "xValues", "yValues",
     "bubbleSize"}

\* lines 100-125: chart['series']
clean_series(chart) ==
    IF "series" \in DOMAIN chart
    THEN [chart EXCEPT !["series"] =
            [k \in 1..Len(@) |->
                DictKeep(DictDel(@[k], series_formatting_keys),
                         essential_series_props)]]
    ELSE chart

\* lines 52-125: one chart
clean_chart(chart) ==
    LET c1 == DictDel(chart, {"style", "plotArea", "chartArea"})
        c2 == essential(c1, "legend", {"position", "visible"})
        c3 == essential(c2, "title", {"text", "formula"})
    IN  clean_series(clean_axes(c3))

\* the keys of the tables of the model that start with 'show' or 'highlight'
\* (lines 144-149, str.startswith)
ShowHighlightKeys == {"showHeaders", "showTotals", "highlightFirstColumn"}

\* lines 139-152: one table
clean_table(table) ==
    DictDel(DictDel(table, {"tableStyleInfo", "format", "predefinedTableStyle"}),
            ShowHighlightKeys)

\* lines 130-131: one named item
clean_named_item(named_item) == DictDel(named_item, {"format"})

\* lines 51-52: the loop over worksheet_data['charts']
clean_charts(worksheet) ==
    IF "charts" \in DOMAIN worksheet
    THEN [worksheet EXCEPT !["charts"] = [k \in 1..Len(@) |-> clean_chart(@[k])]]
    ELSE worksheet

\* lines 128-129: the loop over worksheet_data['namedItems']
clean_named_items(worksheet) ==
    IF "namedItems" \in DOMAIN worksheet
    THEN [worksheet EXCEPT !["namedItems"] =
            [k \in 1..Len(@) |-> clean_named_item(@[k])]]
    ELSE worksheet

\* lines 138-139: the loop over worksheet_data['tables']
clean_tables(worksheet) ==
    IF "tables" \in DOMAIN worksheet
    THEN [worksheet EXCEPT !["tables"] = [k \in 1..Len(@) |-> clean_table(@[k])]]
    ELSE worksheet

\* lines 28-152: one worksheet
clean_worksheet(worksheet_data) ==
    LET w1 == DictDel(worksheet_data, {"worksheetProperties"})
        w2 == IF "cells" \in DOMAIN w1
              THEN [w1 EXCEPT !["cells"] = drop_empty_cells(strip_cells(@))]
              ELSE w1
    IN  clean_tables(clean_named_items(clean_charts(w2)))

\* lines 16-154
remove_formatting(sj) ==
    LET s1 == DictDel(sj, {"meta"})
    IN  IF "worksheets" \in DOMAIN s1
        THEN [s1 EXCEPT !["worksheets"] =
                [n \in DOMAIN @ |-> clean_worksheet(@[n])]]
        ELSE s1

\* a call remove_formatting(sheet_json), as workbook_to_sheetjson makes it
RemoveFormatting ==
    /\ rf_pc = "call"
    /\ sheet_json' = remove_formatting(sheet_json)
    /\ rf_pc' = "returned"
    /\ UNCHANGED <<utils_vars, main_vars, batch_vars, ex_vars, sheet_json_arg, ms_vars, img_vars>>

\* lines 387-396: the file extension for the bytes of an image; the bytes are
\* held as [magic, body], magic being what they start with
ext_of(image_data) ==
    CASE image_data.magic = "\\x89PNG" -> ".png"
      [] image_data.magic = "\\xff\\xd8" -> ".jpg"
      [] image_data.magic = "GIF" -> ".gif"
      [] image_data.magic = "BM" -> ".bmp"
      [] OTHER -> ".png"

\* line 399: f"image{image_count + 1}{ext}", as the number and the extension
filename_of(count, ext) == [number |-> count + 1, ext |-> ext]

\* line 419 placed after the try block, so that it runs for an image that raises too
counted_always(count, extracted) == count + 1

\* line 419: image_count += 1, reached only when nothing was raised
counted(count, extracted) == IF extracted THEN count + 1 ELSE count

\* lines 366-373: mkdir, load_workbook and the two initial values
ImagesStart ==
    /\ img_pc = "start"
    /\ image_count' = 0
    /\ extracted_images' = <<>>
    /\ img_sheet' = 1
    /\ img_k' = 1
    /\ img_pc' = "loop"
    /\ UNCHANGED <<utils_vars, main_vars, batch_vars, ex_vars, rf_vars, ms_vars, img_workbook,
                   image_files, img_returned>>

\* lines 376-380: the next sheet, when this one has no image left
ImagesNextSheet ==
    /\ img_pc = "loop"
    /\ img_sheet <= Len(img_workbook)
    /\ img_k > Len(img_workbook[img_sheet].images)
    /\ img_sheet' = img_sheet + 1
    /\ img_k' = 1
    /\ UNCHANGED <<utils_vars, main_vars, batch_vars, ex_vars, rf_vars, ms_vars, img_pc,
                   img_workbook, image_count, extracted_images, image_files,
                   img_returned>>

\* lines 381-424: one image of the sheet; img._data() raises for an image
\* that cannot be read, and the handler of lines 423-424 goes on with the next
ImagesExtract ==
    /\ img_pc = "loop"
    /\ img_sheet <= Len(img_workbook)
    /\ img_k <= Len(img_workbook[img_sheet].images)
    /\ LET sheet_name == img_workbook[img_sheet].name
           img        == img_workbook[img_sheet].images[img_k]
           filename   == filename_of(image_count, ext_of(img.data))
           image_info == [sheet |-> sheet_name, filename |-> filename,
                          filepath |-> <<"images", filename>>,
                          anchor |-> img.anchor]
       IN  /\ IF img.readable
              THEN /\ image_files' = (filename :> img.data) @@ image_files
                   /\ extracted_images' = Append(extracted_images, image_info)
              ELSE UNCHANGED <<image_files, extracted_images>>
           /\ image_count' = counted(image_count, img.readable)
    /\ img_k' = img_k + 1
    /\ UNCHANGED <<utils_vars, main_vars, batch_vars, ex_vars, rf_vars, ms_vars, img_pc,
                   img_workbook, img_sheet, img_returned>>

\* lines 426-428: workbook.close() and the return
ImagesReturn ==
    /\ img_pc = "loop"
    /\ img_sheet > Len(img_workbook)
    /\ img_returned' = <<extracted_images>>
    /\ img_pc' = "done"
    /\ UNCHANGED <<utils_vars, main_vars, batch_vars, ex_vars, rf_vars, ms_vars, img_workbook,
                   img_sheet, img_k, image_count, extracted_images, image_files>>

-----------------------------------------------------------------------------
(* workbooks/workbooks/moonshotBasic/moonshot_basic_import.py *)
(*                                                                         *)
(* A name is a string. The Data and Sheet/Context ID columns of a row are   *)
(* held as the list of the names they are split into; a text built by an    *)
(* f-string is the list of its parts.                                       *)

\* Python's None, where a name or "" can stand too
None == "<None>"

\* lines 11-12: MOONSHOT_BASIC_FILE.name and CONTEXT_DATA_FILE.name
MOONSHOT_BASIC_FILE_name == "MoonshotBasic.xlsx"
CONTEXT_DATA_FILE_name == "Context_Data.xlsm"

MainWorkbooks == {MOONSHOT_BASIC_FILE_name, CONTEXT_DATA_FILE_name}

\* the sheet names load_moonshot_basic_data_and_sheets and load_excel_file_info
\* return (lines 504, 511-513)
moonshot_sheets == {"M1", "M2"}
context_data_sheets == {"C1"}

\* lines 203-209: the file name a single reference stands for
normalized_filename(ref) ==
    CASE ref = "book.xlsx" -> "book.xlsx"
      [] ref = "my book"   -> "my_book.xlsx"
      [] OTHER             -> "custom.xlsx"

\* line 220: the file name the first of several references stands for
first_ref_filename(ref) ==
    CASE ref = "x" -> "x.xlsx"
      [] OTHER     -> "y.xlsx"

\* the slice s[:n]
Take(s, n) == SubSeq(s, 1, IF Len(s) < n THEN Len(s) ELSE n)

\* lines 285-307: load_visible_sheets_from_workbook
load_visible_sheets_from_workbook(dir, workbook_name) ==
    IF workbook_name \in dir THEN <<"V1", "V2", "V3", "V4">> ELSE <<>>

\* lines 257-282: parse_sheet_context; the context is already split at its
\* separators, and <<"both sheets">> is the text 'both sheets'
parse_sheet_context(dir, sheet_context, workbook_name) ==
    IF sheet_context = <<"both sheets">>
    THEN IF workbook_name \notin {None, ""} /\ workbook_name \notin MainWorkbooks
         THEN Take(load_visible_sheets_from_workbook(dir, workbook_name), 2)
         ELSE <<>>
    ELSE sheet_context

\* lines 230-239: the loop that adds context sheets to sheets_to_import
RECURSIVE add_context_sheets(_, _, _)
add_context_sheets(sheets_to_import, context_sheets, workbook) ==
    IF context_sheets = <<>>
    THEN sheets_to_import
    ELSE LET sheet == Head(context_sheets)
             keep  == /\ sheet # ""
                      /\ \A k \in 1..Len(sheets_to_import) : sheets_to_import[k] # sheet
                      /\ \/ sheet \in moonshot_sheets
                         \/ sheet \in context_data_sheets
                         \/ workbook \notin MainWorkbooks
         IN  add_context_sheets(IF keep THEN Append(sheets_to_import, sheet)
                                ELSE sheets_to_import,
                                Tail(context_sheets), workbook)

\* lines 166-221: the workbook and the sheets the Data column gives
workbook_of_data(dir, data_name) ==
    LET sheet_references == data_name
        moonshot_matches ==
            SelectSeq(sheet_references, LAMBDA r : r \in moonshot_sheets)
        context_data_matches ==
            SelectSeq(sheet_references,
                      LAMBDA r : r \notin moonshot_sheets /\ r \in context_data_sheets)
        matched ==
            SelectSeq(sheet_references,
                      LAMBDA r : r \in moonshot_sheets \cup context_data_sheets)
    IN  CASE data_name = <<>> -> <<None, <<>>>>
          [] context_data_matches # <<>> /\ moonshot_matches = <<>> ->
                <<CONTEXT_DATA_FILE_name, matched>>
          [] moonshot_matches # <<>> /\ context_data_matches = <<>> ->
                <<MOONSHOT_BASIC_FILE_name, matched>>
          [] context_data_matches # <<>> /\ moonshot_matches # <<>> ->
                <<IF Len(context_data_matches) >= Len(moonshot_matches)
                  THEN CONTEXT_DATA_FILE_name ELSE MOONSHOT_BASIC_FILE_name, matched>>
          [] OTHER ->
                IF Len(sheet_references) = 1
                THEN <<IF normalized_filename(sheet_references[1]) \in dir
                       THEN normalized_filename(sheet_references[1]) ELSE None, <<>>>>
                ELSE <<first_ref_filename(sheet_references[1]), sheet_references>>

\* lines 152-254: determine_workbook_and_sheets, <<workbook, sheets_to_import>>
determine_workbook_and_sheets(dir, data_name, sheet_context) ==
    IF data_name \in {<<"blank sheet">>, <<"blank">>, <<"n/a">>}
    THEN <<"", <<>>>>
    ELSE LET d == workbook_of_data(dir, data_name)
             workbook == d[1]
         IN  CASE sheet_context # <<>> ->
                    <<workbook,
                      add_context_sheets(d[2],
                          parse_sheet_context(dir, sheet_context, workbook), workbook)>>
               [] sheet_context = <<>> /\ workbook \notin {None, ""}
                     /\ workbook \notin MainWorkbooks /\ d[2] = <<>> ->
                    <<workbook,
                      Take(load_visible_sheets_from_workbook(dir, workbook), 3)>>
               [] OTHER -> d

\* lines 310-333: create_test_case without supplementary and selection_sheet
create_test_case(query_index, item, workbook, sheets_to_import, tags) ==
    [query_index |-> query_index, tags |-> tags, query |-> item,
     sheetsToImport |-> sheets_to_import]
        @@ (IF workbook # "" THEN "workbook" :> <<workbook>> ELSE EmptyDict)

\* lines 501-520: up to the first iteration, or the return for no cleared row
MoonshotStart ==
    /\ ms_pc = "start"
    /\ IF filtered_data = <<>>
       THEN /\ ms_pc' = "done"
            /\ UNCHANGED existing_workbooks
       ELSE /\ ms_pc' = "loop"
            /\ existing_workbooks' = MainWorkbooks
    /\ ms_idx' = 1
    /\ valid_test_cases' = <<>>
    /\ skipped_cases' = <<>>
    /\ UNCHANGED <<utils_vars, main_vars, batch_vars, ex_vars, rf_vars, img_vars, workbook_dir,
                   filtered_data, ms_json>>

\* lines 555-563: workbook_exists
workbook_exists(dir, existing, workbook) ==
    workbook \notin {None, ""} /\ (workbook \in existing \/ workbook \in dir)

\* lines 522-601: one iteration of the for loop
MoonshotRow ==
    /\ ms_pc = "loop"
    /\ LET row  == filtered_data[ms_idx]
           d    == determine_workbook_and_sheets(workbook_dir, row.Data, row.Context)
           workbook == d[1]
           sheets_to_import == d[2]
           test_case == create_test_case(row.ID, row.Item, workbook,
                                         sheets_to_import, row.tags)
           special == IF workbook = "" /\ sheets_to_import = <<>>
                      THEN Append(valid_test_cases, test_case)
                      ELSE valid_test_cases
           skipped(display, query) ==
               Append(skipped_cases, [id |-> row.ID, data_name |-> row.Data,
                                      workbook |-> display, query |-> query])
       IN  IF row.Item = ""
           THEN /\ skipped_cases' = skipped("No query provided", "Empty query")
                /\ UNCHANGED <<valid_test_cases, existing_workbooks>>
           ELSE IF workbook_exists(workbook_dir, existing_workbooks, workbook)
                THEN /\ existing_workbooks' = existing_workbooks \cup {workbook}
                     /\ valid_test_cases' =
                           Append(special,
                                  [test_case EXCEPT
                                      !["workbook"] = <<"moonshotBasic/", workbook>>])
                     /\ UNCHANGED skipped_cases
                ELSE /\ valid_test_cases' = special
                     /\ skipped_cases' =
                           skipped(IF workbook \notin {None, ""} THEN workbook
                                   ELSE "Unable to determine workbook", row.Item)
                     /\ UNCHANGED existing_workbooks
    /\ ms_idx' = ms_idx + 1
    /\ ms_pc' = IF ms_idx = Len(filtered_data) THEN "sort" ELSE "loop"
    /\ UNCHANGED <<utils_vars, main_vars, batch_vars, ex_vars, rf_vars, img_vars, workbook_dir,
                   filtered_data, ms_json>>

\* line 604: list.sort by query_index, which is stable
sorted_by_query_index(cases) ==
    Flatten([id \in 1..Len(filtered_data) |->
                SelectSeq(cases, LAMBDA t : t.query_index = id)])

\* lines 603-628: the sort, the dump to MoonshotBasic.json and the return
MoonshotDump ==
    /\ ms_pc = "sort"
    /\ valid_test_cases' = sorted_by_query_index(valid_test_cases)
    /\ ms_json' = Append(ms_json, valid_test_cases')
    /\ ms_pc' = "done"
    /\ UNCHANGED <<utils_vars, main_vars, batch_vars, ex_vars, rf_vars, img_vars, workbook_dir,
                   filtered_data, ms_idx, existing_workbooks, skipped_cases>>

-----------------------------------------------------------------------------
(* ignore/excel_extractor.py *)
(*                                                                         *)
(* A sheet of the workbook is [name, formula, style, chart, image]: whether  *)
(* it has a formula cell, a styled cell and a chart, and whether it has no   *)
(* image ("none"), one that img.ref.save writes ("saved") or one whose save  *)
(* raises ("unsaved"). A path is the list of the parts of the f-string that  *)
(* builds it, relative to output_dir.                                        *)

\* the summary report is made before the macros are extracted
ExtractSteps_summary_before_macros ==
    <<"_extract_metadata", "_extract_sheet_data", "_extract_formulas",
      "_extract_styles", "_extract_images", "_extract_charts",
      "_create_summary_report", "_extract_macros">>

\* lines 90-114: the calls extract_file makes on the loaded workbook, in order
ExtractSteps ==
    <<"_extract_metadata", "_extract_sheet_data", "_extract_formulas",
      "_extract_styles", "_extract_images", "_extract_charts",
      "_extract_macros", "_create_summary_report">>

\* the files a step writes when it runs to its end, in the order it opens them.
\* An image whose save raises is skipped by the handler of lines 298-299 and a
\* VBA part that cannot be opened ("unopened") or read ("unread") by the one
\* of lines 363-365; the open of line 358 has made the file before a read fails.
files_of(wb, step) ==
    LET n     == Len(wb.sheets)
        name  == [k \in 1..n |-> wb.sheets[k].name]
        saved == {k \in 1..n : wb.sheets[k].image = "saved"}
    IN  CASE step = "_extract_metadata" -> << <<"metadata/metadata.json">> >>
          [] step = "_extract_sheet_data" ->
                Flatten([k \in 1..n |-> << <<"data/", name[k], ".csv">>,
                                           <<"data/", name[k], ".json">>,
                                           <<"data/", name[k], ".xlsx">> >>])
                   \o << <<"data/sheet_info.json">> >>
          [] step = "_extract_formulas" ->
                IF \E k \in 1..n : wb.sheets[k].formula
                THEN << <<"formulas/formulas.json">> >> ELSE <<>>
          [] step = "_extract_styles" ->
                IF \E k \in 1..n : wb.sheets[k].style
                THEN << <<"styles/styles.json">> >> ELSE <<>>
          [] step = "_extract_images" ->
                Flatten([k \in 1..n |-> IF k \in saved
                                        THEN << <<"images/", name[k], "_image_1.png">> >>
                                        ELSE <<>>])
                   \o (IF saved # {} THEN << <<"images/images_info.json">> >> ELSE <<>>)
          [] step = "_extract_charts" ->
                IF \E k \in 1..n : wb.sheets[k].chart
                THEN << <<"charts/charts_info.json">> >> ELSE <<>>
          [] step = "_extract_macros" ->
                (IF wb.vba \in {"saved", "unread"}
                 THEN << <<"macros/vba_archive.bin">> >> ELSE <<>>)
                   \o << <<"macros/macros_info.json">> >>
          [] step = "_create_summary_report" -> << <<"extraction_summary.json">> >>

\* the statement extract_file runs after a step that returned
after_step(step) ==
    LET p == CHOOSE k \in 1..Len(ExtractSteps) : ExtractSteps[k] = step
    IN  IF p = Len(ExtractSteps) THEN "close" ELSE ExtractSteps[p + 1]

\* lines 67-87: the folders are made and the workbook is loaded; load_workbook
\* may raise, and extract_file has no handler
ExtractStart ==
    /\ ex_pc = "call"
    /\ \E loaded \in BOOLEAN :
          IF loaded
          THEN /\ ex_open' = "open"
               /\ ex_pc' = ExtractSteps[1]
               /\ ex_raised' = ex_raised
          ELSE /\ ex_open' = ex_open
               /\ ex_pc' = "raised"
               /\ ex_raised' = "load_workbook"
    /\ UNCHANGED <<utils_vars, main_vars, batch_vars, rf_vars, ms_vars, img_vars,
                   ex_wb, ex_dir, ex_trace, ex_summary>>

\* lines 90-108: one of the seven extraction steps. It returns after writing
\* its files, or raises after opening the first n of them.
ExtractStep ==
    /\ ex_pc \in {ExtractSteps[k] : k \in 1..Len(ExtractSteps)}
    /\ ex_pc # "_create_summary_report"
    /\ LET files == files_of(ex_wb, ex_pc)
       IN  \E n \in 0..Len(files), returns \in BOOLEAN :
              /\ returns => n = Len(files)
              /\ ex_dir' = ex_dir \cup {files[k] : k \in 1..n}
              /\ ex_trace' = Append(ex_trace, [step   |-> ex_pc,
                                               wrote  |-> SubSeq(files, 1, n),
                                               raised |-> ~returns])
              /\ ex_pc' = IF returns THEN after_step(ex_pc) ELSE "raised"
              /\ ex_raised' = IF returns THEN ex_raised ELSE ex_pc
    /\ UNCHANGED <<utils_vars, main_vars, batch_vars, rf_vars, ms_vars, img_vars,
                   ex_wb, ex_summary, ex_open>>

\* line 114, _create_summary_report (lines 402-456): files_created is every
\* file found below output_dir (lines 446-448), listed before
\* extraction_summary.json is opened (line 450). The step may raise before the
\* open or in json.dump after it.
CreateSummaryReport ==
    /\ ex_pc = "_create_summary_report"
    /\ LET files_created == ex_dir
           files == files_of(ex_wb, ex_pc)
       IN  \E n \in 0..Len(files), returns \in BOOLEAN :
              /\ returns => n = Len(files)
              /\ ex_dir' = ex_dir \cup {files[k] : k \in 1..n}
              /\ ex_summary' = IF returns THEN Append(ex_summary, files_created)
                               ELSE ex_summary
              /\ ex_trace' = Append(ex_trace, [step   |-> ex_pc,
                                               wrote  |-> SubSeq(files, 1, n),
                                               raised |-> ~returns])
              /\ ex_pc' = IF returns THEN after_step(ex_pc) ELSE "raised"
              /\ ex_raised' = IF returns THEN ex_raised ELSE ex_pc
    /\ UNCHANGED <<utils_vars, main_vars, batch_vars, rf_vars, ms_vars, img_vars,
                   ex_wb, ex_open>>

\* line 116: wb.close(), then extract_file returns
ExtractClose ==
    /\ ex_pc = "close"
    /\ ex_open' = "closed"
    /\ ex_trace' = Append(ex_trace, [step |-> "close", wrote |-> <<>>, raised |-> FALSE])
    /\ ex_pc' = "returned"
    /\ UNCHANGED <<utils_vars, main_vars, batch_vars, rf_vars, ms_vars, img_vars,
                   ex_wb, ex_dir, ex_summary, ex_raised>>

-----------------------------------------------------------------------------
(* Values of the variables a specification does not use *)

NoCall == [fn |-> "none", arg |-> "", result |-> <<>>]

NoRequest == [stage |-> "none", system |-> <<>>, user |-> <<>>, max_tokens |-> 0]

MainIdle ==
    /\ pc = "idle"
    /\ RUN_STEP = [s \in 2..6 |-> FALSE]
    /\ folders = <<>>
    /\ folder_i = 0
    /\ fs = <<>>
    /\ keywords = <<>>
    /\ keywords_sample = <<>>
    /\ i = 0
    /\ codes = <<>>
    /\ themes = <<>>
    /\ request = NoRequest
    /\ chunks = <<>>
    /\ trace = <<>>
    /\ raised = "none"
    /\ fs0 = <<>>
    /\ replies = <<>>

BatchIdle ==
    /\ b_pc = "idle"
    /\ excel_files = <<>>
    /\ b_k = 0
    /\ processed_files = <<>>
    /\ failed_files = <<>>
    /\ b_attempts = <<>>
    /\ b_steps = <<>>
    /\ b_log = <<>>
    /\ b_summary = <<>>

FormatIdle ==
    /\ rf_pc = "idle"
    /\ sheet_json_arg = EmptyDict
    /\ sheet_json = EmptyDict

MoonshotIdle ==
    /\ ms_pc = "idle"
    /\ workbook_dir = {}
    /\ filtered_data = <<>>
    /\ ms_idx = 0
    /\ existing_workbooks = {}
    /\ valid_test_cases = <<>>
    /\ skipped_cases = <<>>
    /\ ms_json = <<>>

ImagesIdle ==
    /\ img_pc = "idle"
    /\ img_workbook = <<>>
    /\ img_sheet = 0
    /\ img_k = 0
    /\ image_count = 0
    /\ extracted_images = <<>>
    /\ image_files = EmptyDict
    /\ img_returned = <<>>

ExtractIdle ==
    /\ ex_pc = "idle"
    /\ ex_wb = [sheets |-> <<>>, vba |-> "none"]
    /\ ex_dir = {}
    /\ ex_trace = <<>>
    /\ ex_summary = <<>>
    /\ ex_open = "unloaded"
    /\ ex_raised = "none"

LibIdle == FormatIdle /\ MoonshotIdle /\ ImagesIdle /\ ExtractIdle

-----------------------------------------------------------------------------
(* SpecUtils: the functions of utils.py and validate_truncation_fix.py, called *)
(* on inputs drawn from bounded sets                                          *)

TemplateAlphabet == {"[", "]", "a", "b"}

Templates == UNION {[1..n -> TemplateAlphabet] : n \in 0..MaxTemplateLen}

\* contents of prompt_details.yaml: none; a plain value; a value that itself
\* holds a placeholder of a defined key; a key that starts with a bracket
DetailsChoices ==
    { [k \in {} |-> <<>>],
      (<<"a">> :> <<"x", "y">>),
      (<<"a">> :> <<"[", "b", "]">>) @@ (<<"b">> :> <<"a">>),
      (<<"[", "a">> :> <<>>) @@ (<<"b">> :> <<"]">>) }

StepNames == {"step2", "step3", "step4", "step5", "step6", "system"}

\* step names handed to get_max_tokens_for_step: the configured ones and others
TokenStepArgs == StepNames \cup {"step1", "step7", ""}

\* step names handed to get_prompt: one present in prompts.yaml, one absent
PromptStepArgs == {"step2", "step3"}

InitUtils ==
    /\ prompts \in {("step2" :> t) : t \in Templates}
    /\ details \in DetailsChoices
    /\ u_call = NoCall
    /\ MainIdle
    /\ BatchIdle
    /\ LibIdle

CallGetPrompt ==
    /\ \E step \in PromptStepArgs :
          u_call' = [fn |-> "get_prompt", arg |-> step,
                     result |-> get_prompt(prompts, details, step)]
    /\ UNCHANGED <<prompts, details, main_vars, batch_vars, lib_vars>>

CallGetMaxTokens ==
    /\ \E step \in TokenStepArgs :
          u_call' = [fn |-> "get_max_tokens_for_step", arg |-> step,
                     result |-> get_max_tokens_for_step(step)]
    /\ UNCHANGED <<prompts, details, main_vars, batch_vars, lib_vars>>

CallValidateFix ==
    /\ u_call' = [fn |-> "validate_fix", arg |-> "", result |-> validate_fix]
    /\ UNCHANGED <<prompts, details, main_vars, batch_vars, lib_vars>>

NextUtils == CallGetPrompt \/ CallGetMaxTokens \/ CallValidateFix

SpecUtils == InitUtils /\ [][NextUtils]_vars

-----------------------------------------------------------------------------
(* Spec: a run of main.py *)

Digit(d) == <<"0", "1", "2", "3", "4", "5", "6", "7", "8", "9">>[d + 1]

\* the k-th line of an existing keywords.txt: k in three digits
Line(k) == <<Digit((k \div 100) % 10), Digit((k \div 10) % 10), Digit(k % 10)>>

AFile(content) == [exists |-> TRUE, text |-> content]
NoFile == [exists |-> FALSE, text |-> <<>>]

\* numbers of lines of an existing keywords.txt: around every multiple of
\* KEYWORD_CHUNK_SIZE up to MaxFullChunks chunks
KeywordCounts ==
    {q * KEYWORD_CHUNK_SIZE + r :
        q \in 0..MaxFullChunks, r \in {0, 1, KEYWORD_CHUNK_SIZE - 1}}

KeywordsText(n) == Flatten([k \in 1..n |-> Line(k) \o <<NL>>])

\* the spreadsheet folders: a name and the content of its sheetjson.json
Folder(k) == [name |-> <<"f", Digit(k)>>, sheetjson |-> <<"{", Digit(k), "}">>]

\* prompts.yaml and prompt_details.yaml of the pipeline: every template holds the
\* placeholders its stage function replaces, and [t], which prompt_details defines
PipelinePrompts ==
    ("system" :> <<"S">>)
    @@ ("step2" :> <<"[", "t", "]">> \o DATA)
    @@ ("step3" :> KEYWORDS \o <<"|">> \o DATA)
    @@ ("step4" :> CODES \o <<"|">> \o KEYWORDS)
    @@ ("step5" :> CODES \o <<"|">> \o KEYWORDS \o <<"|">> \o THEMES)
    @@ ("step6" :> THEMES \o <<"|">> \o CODES \o <<"|">> \o KEYWORDS)

PipelineDetails == (<<"t">> :> <<"x">>)

\* the files of OUTPUT_FOLDER before the run: each is absent or was written by
\* earlier runs (so it ends with a newline)
InitialFiles ==
    {[name \in FileNames |->
        CASE name = "keywords.txt" -> kw
          [] name = "codes.txt"    -> IF old THEN AFile(<<"c", NL>>) ELSE NoFile
          [] name = "themes.txt"   -> IF old THEN AFile(<<"t", NL>>) ELSE NoFile
          [] OTHER                 -> IF old THEN AFile(<<"o", NL>>) ELSE NoFile] :
        kw \in {NoFile} \cup {AFile(KeywordsText(n)) : n \in KeywordCounts},
        old \in BOOLEAN}

Init ==
    /\ prompts = PipelinePrompts
    /\ details = PipelineDetails
    /\ u_call = NoCall
    /\ RUN_STEP \in [2..6 -> BOOLEAN]
    /\ folders \in {[k \in 1..n |-> Folder(k)] :
                        n \in IF RUN_STEP[2] THEN 0..MaxFolders ELSE {0}}
    /\ folder_i = 1
    /\ fs \in InitialFiles
    /\ pc = IF RUN_STEP[2] /\ folders # <<>> THEN "step2" ELSE "read_keywords"
    /\ keywords = <<>>
    /\ keywords_sample = <<>>
    /\ i = 0
    /\ codes = <<>>
    /\ themes = <<>>
    /\ request = NoRequest
    /\ chunks = <<>>
    /\ trace = <<>>
    /\ raised = "none"
    /\ fs0 = fs
    /\ replies = <<>>
    /\ BatchIdle
    /\ LibIdle

Next ==
    \/ Step2Call
    \/ Step2Sleep
    \/ ReadKeywords
    \/ Step3Call
    \/ Step3Sleep
    \/ ReadCodes
    \/ Step4Call
    \/ ReadThemes
    \/ Step5Call
    \/ Step6Call

Spec == Init /\ [][Next]_vars

-----------------------------------------------------------------------------
(* Claims about the pipeline, checked under Spec *)

CallEvents == {"create_keywords", "create_codes", "create_themes",
               "create_concepts", "create_conceptual_model"}

Happened(event) == \E k \in 1..Len(trace) : trace[k] = event

IsPrefix(s, t) == Len(s) <= Len(t) /\ SubSeq(t, 1, Len(s)) = s

\* C1: a stage call that raises is caught and the run goes on with the next
\* item: a raising llm_call never leaves main.py aborted.
C1_FailingCallDoesNotAbort == ~(raised = "llm_call" /\ pc = "aborted")

\* C3: every hand-off file is append-only, a stage call that returns adds
\* exactly one response text followed by a newline to exactly one file, and
\* nothing else changes a file's content.
C3_AppendOnly ==
    [][ /\ \A name \in FileNames :
              /\ IsPrefix(fs[name].text, fs'[name].text)
              /\ fs[name].exists => fs'[name].exists
        /\ LET grown == {name \in FileNames : fs'[name].text # fs[name].text}
               called == trace' # trace /\ trace'[Len(trace')] \in CallEvents
           IN  /\ grown # {} => called
               /\ (called /\ raised' = "none") =>
                     \E name \in FileNames :
                        /\ grown = {name}
                        /\ \E content \in Responses :
                              fs'[name].text = fs[name].text \o content \o <<NL>>
               /\ (called /\ raised' # "none") => grown = {}
      ]_vars

C3_Witness ==
    /\ fs["codes.txt"].text = <<"c", NL, "v", NL, "w", NL, "u", NL>>
    /\ fs["themes.txt"].text = <<"t", NL, "u", NL>>

\* the place of an event in the order of main.py (sleeps and failed opens: 0)
Rank(event) ==
    CASE event = "create_keywords"         -> 1
      [] event = "read keywords.txt"       -> 2
      [] event = "create_codes"            -> 3
      [] event = "read codes.txt"          -> 4
      [] event = "create_themes"           -> 5
      [] event = "read themes.txt"         -> 6
      [] event = "create_concepts"         -> 7
      [] event = "create_conceptual_model" -> 8
      [] OTHER                             -> 0

\* C4: the stages run in the order keywords, codes, themes, concepts, conceptual
\* model; each hand-off file is read once, after the last call of the stage that
\* writes it, so what a later stage was given is the file's final content.
C4_StagesInOrder ==
    /\ \A a, b \in 1..Len(trace) :
          (a < b /\ Rank(trace[a]) > 0 /\ Rank(trace[b]) > 0) =>
             /\ Rank(trace[a]) <= Rank(trace[b])
             /\ Rank(trace[a]) = Rank(trace[b]) => trace[a] \in {"create_keywords", "create_codes"}
    /\ (Happened("create_codes") \/ Happened("create_themes")
          \/ Happened("create_concepts") \/ Happened("create_conceptual_model")) =>
          /\ Happened("read keywords.txt")
          /\ keywords = SplitLines(fs["keywords.txt"].text)
    /\ (Happened("create_themes") \/ Happened("create_concepts")
          \/ Happened("create_conceptual_model")) =>
          /\ Happened("read codes.txt")
          /\ codes = SplitLines(fs["codes.txt"].text)
    /\ (Happened("create_concepts") \/ Happened("create_conceptual_model")) =>
          /\ Happened("read themes.txt")
          /\ themes = SplitLines(fs["themes.txt"].text)

C4_Witness ==
    /\ pc = "done"
    /\ \A event \in CallEvents : Happened(event)
    /\ Len(themes) >= 2

\* the step 3 loop has run to its end
Step3Finished ==
    /\ RUN_STEP[3]
    /\ Happened("read keywords.txt")
    /\ \/ pc \in {"read_codes", "step4", "read_themes", "step5", "step6", "done"}
       \/ Happened("read codes.txt")
       \/ (pc = "aborted" /\ raised = "FileNotFoundError")

\* C5: the create_codes calls made so far carry the first chunks of the keyword
\* list: every chunk is non-empty and has at most 100 keywords, all but the last
\* exactly 100, and their concatenation is a prefix of the keyword list; once the
\* loop has run to its end there are ceil(n/100) of them and the concatenation
\* is the whole list.
C5_Chunks ==
    LET n == Len(keywords)
        m == Len(chunks)
    IN  /\ \A k \in 1..m :
              /\ Len(chunks[k]) >= 1
              /\ Len(chunks[k]) <= KEYWORD_CHUNK_SIZE
              /\ k < m => Len(chunks[k]) = KEYWORD_CHUNK_SIZE
        /\ IsPrefix(Flatten(chunks), keywords)
        /\ m * KEYWORD_CHUNK_SIZE < n + KEYWORD_CHUNK_SIZE
        /\ Step3Finished =>
              /\ m * KEYWORD_CHUNK_SIZE >= n
              /\ Flatten(chunks) = keywords
        /\ ~RUN_STEP[3] => m = 0

C5_Witness ==
    /\ Step3Finished
    /\ Len(keywords) = 2 * KEYWORD_CHUNK_SIZE + 1
    /\ Len(chunks) = 3
    /\ Len(chunks[3]) = 1

\* C6: the prompt create_keywords sends for a spreadsheet is the step2 template
\* with the content of that spreadsheet's sheetjson.json in place of [data].
C6_PromptHoldsSheetData ==
    (request.stage = "step2" /\ pc = "step2_sleep") =>
        request.user = Replace(get_prompt(prompts, details, "step2"), DATA,
                               folders[folder_i].sheetjson)

\* C7 as stated: a sleep lies between any two consecutive LLM calls.
C7_SleepBetweenAnyTwoCalls ==
    \A a, b \in 1..Len(trace) :
        (/\ a < b
         /\ trace[a] \in CallEvents
         /\ trace[b] \in CallEvents
         /\ \A c \in (a + 1)..(b - 1) : trace[c] \notin CallEvents) =>
            \E c \in (a + 1)..(b - 1) : trace[c] = "sleep"

\* C7, amended: a sleep follows every create_keywords and every create_codes call
\* that returned (so it separates that call from the next LLM call), and there is
\* no other sleep: none separates create_themes, create_concepts and
\* create_conceptual_model.
C7_SleepAfterLoopCalls ==
    \A k \in 1..Len(trace) :
        /\ (trace[k] \in {"create_keywords", "create_codes"} /\ k < Len(trace)) =>
              trace[k + 1] = "sleep"
        /\ trace[k] = "sleep" =>
              (k > 1 /\ trace[k - 1] \in {"create_keywords", "create_codes"})
        /\ (trace[k] \in {"create_themes", "create_concepts"} /\ k < Len(trace)) =>
              trace[k + 1] # "sleep"

C7_Witness ==
    /\ pc = "done"
    /\ \E k \in 1..Len(trace) :
          /\ k + 4 <= Len(trace)
          /\ SubSeq(trace, k, k + 4) =
                <<"create_codes", "sleep", "read codes.txt",
                  "create_themes", "read themes.txt">>
    /\ Happened("create_keywords")
    /\ trace[Len(trace) - 1] = "create_concepts"
    /\ trace[Len(trace)] = "create_conceptual_model"

\* C8: the payload of create_concepts carries max_tokens >= 3000, that of
\* create_conceptual_model max_tokens >= 4000: the limit of a stage's request is
\* the one get_max_tokens_for_step returns for the stage.
C8_StepLimitInPayload ==
    /\ request.stage = "step5" => request.max_tokens >= 3000
    /\ request.stage = "step6" => request.max_tokens >= 4000
    /\ request.stage \in StepNames =>
          request.max_tokens = get_max_tokens_for_step(request.stage)

\* the contents of the results of the calls of a stage, in the order of the calls
RepliesOf(stage) ==
    LET of_stage == SelectSeq(replies, LAMBDA r : r.stage = stage)
    IN  [k \in 1..Len(of_stage) |-> of_stage[k].content]

\* the lines codes.txt held before the run, followed by the lines of the
\* responses of the create_codes calls in the order of the calls
LinesBeforeThenReplies ==
    SplitLines(fs0["codes.txt"].text)
        \o Flatten([k \in 1..Len(RepliesOf("step3")) |->
                       SplitLines(RepliesOf("step3")[k] \o <<NL>>)])

\* C15: the codes handed to create_themes, create_concepts and
\* create_conceptual_model are the lines of codes.txt after the last
\* create_codes call: the lines the file held before the run followed by the
\* responses of this run's chunks in chunk order, and exactly the lines the
\* file already held when RUN_STEP3 is off.
C15_CodesHandedOn ==
    /\ Happened("read codes.txt") =>
          /\ codes = LinesBeforeThenReplies
          /\ codes = SplitLines(fs["codes.txt"].text)
          /\ Len(RepliesOf("step3")) = Len(chunks)
          /\ ~RUN_STEP[3] => codes = SplitLines(fs0["codes.txt"].text)
    /\ pc \in {"step4", "step5", "step6"} => codes = LinesBeforeThenReplies

\* a run over two chunks whose responses differ, on a codes.txt that held a
\* line before, up to the call of create_conceptual_model
C15_Witness ==
    /\ request.stage = "step6"
    /\ fs0["codes.txt"].text = <<"c", NL>>
    /\ RepliesOf("step3") = << <<"v", NL, "w">>, <<"u">> >>
    /\ codes = << <<"c">>, <<"v">>, <<"w">>, <<"u">> >>

\* the prompt of a stage after step 3 when sample_text stands for [keywords]
PromptWithSample(step, sample_text) ==
    LET codes_str  == Join(<<NL>>, codes) \o <<NL>>
        themes_str == Join(<<NL>>, themes) \o <<NL>>
        with_codes == Replace(Replace(get_prompt(prompts, details, step), CODES, codes_str),
                              KEYWORDS, sample_text)
    IN  IF step = "step4" THEN with_codes ELSE Replace(with_codes, THEMES, themes_str)

\* C16: the keywords sample in the prompts of create_themes, create_concepts
\* and create_conceptual_model is the first min(n, 100) lines of keywords.txt,
\* one keyword per line, the characters of each keyword kept together.
C16_SampleOneKeywordPerLine ==
    request.stage \in {"step4", "step5", "step6"} =>
        request.user =
            PromptWithSample(request.stage,
                Join(<<NL>>, SubSeq(keywords, 1,
                                    Min({Len(keywords), KEYWORD_CHUNK_SIZE})))
                    \o <<NL>>)

\* the stage function that RUN_STEP<s> guards, and the file it appends to
StageEvent(s) ==
    <<"create_keywords", "create_codes", "create_themes", "create_concepts",
      "create_conceptual_model">>[s - 1]

StageFile(s) ==
    <<"keywords.txt", "codes.txt", "themes.txt", "concepts.txt",
      "conceptual_model.txt">>[s - 1]

\* the event after the k-th of the trace is one of events, if there is one
NextEventIn(k, events) == k < Len(trace) => trace[k + 1] \in events

\* C18: a stage whose RUN_STEP flag is False makes no LLM call and changes no
\* file, and the pipeline goes on to read the file that stage would have
\* written and hands its lines, as they were before the run, to the later
\* stages.
C18_SkippedStage ==
    /\ \A s \in 2..6 : ~RUN_STEP[s] =>
          /\ ~Happened(StageEvent(s))
          /\ RepliesOf(<<"step2", "step3", "step4", "step5", "step6">>[s - 1]) = <<>>
          /\ fs[StageFile(s)] = fs0[StageFile(s)]
    /\ ~RUN_STEP[2] =>
          /\ trace # <<>> => trace[1] \in {"read keywords.txt", "open failed"}
          /\ Happened("read keywords.txt") =>
                keywords = SplitLines(fs0["keywords.txt"].text)
    /\ ~RUN_STEP[3] =>
          /\ \A k \in 1..Len(trace) : trace[k] = "read keywords.txt" =>
                NextEventIn(k, {"read codes.txt", "open failed"})
          /\ Happened("read codes.txt") => codes = SplitLines(fs0["codes.txt"].text)
    /\ ~RUN_STEP[4] =>
          /\ \A k \in 1..Len(trace) : trace[k] = "read codes.txt" =>
                NextEventIn(k, {"read themes.txt", "open failed"})
          /\ Happened("read themes.txt") => themes = SplitLines(fs0["themes.txt"].text)
    /\ (~RUN_STEP[5] /\ RUN_STEP[6]) =>
          \A k \in 1..Len(trace) : trace[k] = "read themes.txt" =>
             NextEventIn(k, {"create_conceptual_model"})

\* a run with steps 2, 3 and 4 off that reaches the call of create_concepts
\* with the lines the three files held before the run
C18_Witness ==
    /\ ~RUN_STEP[2] /\ ~RUN_STEP[3] /\ ~RUN_STEP[4]
    /\ request.stage = "step5"
    /\ Len(keywords) = 1
    /\ codes = << <<"c">> >>
    /\ themes = << <<"t">> >>
    /\ request.user = create_concepts_prompt("step5", themes, codes, keywords_sample)

\* the file of the stage function that built the request
OwnFile(req) ==
    CASE req.stage = "step2" -> "keywords.txt"
      [] req.stage = "step3" -> "codes.txt"
      [] req.stage = "step4" -> "themes.txt"
      [] req.stage = "step5" -> "concepts.txt"
      [] req.stage = "step6" -> "conceptual_model.txt"

\* C19: a call of a stage function changes its own hand-off file only, every
\* other file is as before the call, and a call whose LLM request raises
\* leaves the content of its own file as it was too; a step that is no stage
\* call changes no file.
C19_OwnFileOnly ==
    [][ IF trace' # trace /\ trace'[Len(trace')] \in CallEvents
        THEN /\ \A name \in FileNames \ {OwnFile(request')} : fs'[name] = fs[name]
             /\ raised' # "none" =>
                   fs'[OwnFile(request')].text = fs[OwnFile(request')].text
             /\ raised' = "none" =>
                   fs'[OwnFile(request')].text # fs[OwnFile(request')].text
        ELSE fs' = fs
      ]_vars

\* a create_themes call that raised: codes.txt holds what create_codes added,
\* themes.txt and the other files hold what they held before the run
C19_Witness ==
    /\ raised = "llm_call"
    /\ request.stage = "step4"
    /\ fs["codes.txt"].text = <<"c", NL, "u", NL>>
    /\ fs["themes.txt"].text = <<"t", NL>>
    /\ \A name \in FileNames \ {"codes.txt"} : fs[name] = fs0[name]

-----------------------------------------------------------------------------
(* SpecBatch: BatchProcessor.process_all_files on an input folder *)

XlsxNames == <<"a.xlsx", "b.xlsx", "c.xlsx", "d.xlsx", "e.xlsx">>
XlsNames  == <<"p.xls", "q.xls", "r.xls", "s.xls", "t.xls">>

\* list(glob("*.xlsx")) + list(glob("*.xls")): distinct names, .xlsx files first
FileLists ==
    {SubSeq(XlsxNames, 1, n[1]) \o SubSeq(XlsNames, 1, n[2]) :
        n \in {m \in (0..MaxFiles) \X (0..MaxFiles) : m[1] + m[2] <= MaxFiles}}

InitBatch ==
    /\ prompts = PipelinePrompts
    /\ details = PipelineDetails
    /\ u_call = NoCall
    /\ MainIdle
    /\ b_pc = "start"
    /\ excel_files \in FileLists
    /\ b_k = 0
    /\ processed_files = <<>>
    /\ failed_files = <<>>
    /\ b_attempts = <<>>
    /\ b_steps = <<>>
    /\ b_log = <<>>
    /\ b_summary = <<>>
    /\ LibIdle

NextBatch == StartBatch \/ ProcessFile \/ GenerateSummary

SpecBatch == InitBatch /\ [][NextBatch]_vars

-----------------------------------------------------------------------------
(* Claims about utils.py, checked under SpecUtils *)

\* the limits as C9 lists them
ClaimedLimits ==
    ("step2" :> 1000) @@ ("step3" :> 2000) @@ ("step4" :> 2000)
    @@ ("step5" :> 3000) @@ ("step6" :> 4000) @@ ("system" :> 500)

\* C9: get_max_tokens_for_step returns 1000, 2000, 2000, 3000, 4000 and 500 for
\* step2, step3, step4, step5, step6 and system and 2000 for any other name, and
\* validate_fix returns True.
C9_TokenLimits ==
    /\ u_call.fn = "get_max_tokens_for_step" =>
          u_call.result = IF u_call.arg \in DOMAIN ClaimedLimits
                          THEN ClaimedLimits[u_call.arg] ELSE 2000
    /\ u_call.fn = "validate_fix" => u_call.result = TRUE

C9_Witness ==
    /\ u_call.fn = "get_max_tokens_for_step"
    /\ u_call.arg = "step5"
    /\ u_call.result = 3000

\* the positions of the closing brackets of s, in order
Closings(s) == SelectSeq(Indexes(s), LAMBDA k : s[k] = "]")

\* the text from lo up to the closing bracket at hi, which holds no other closing
\* bracket: a placeholder runs from its first "[" that has a character between
\* it and the "]"; the placeholder is replaced by the value of its key when
\* det defines the key and is kept as it is otherwise
FilledUpTo(det, s, lo, hi) ==
    LET opens == {p \in lo..(hi - 2) : s[p] = "["}
    IN  IF opens = {} THEN SubSeq(s, lo, hi)
        ELSE LET p   == Min(opens)
                 key == SubSeq(s, p + 1, hi - 1)
             IN  SubSeq(s, lo, p - 1)
                   \o (IF key \in DOMAIN det THEN det[key] ELSE SubSeq(s, p, hi))

\* the template with every placeholder filled once, piece by piece
Filled(det, s) ==
    LET cl   == Closings(s)
        last == IF Len(cl) = 0 THEN 0 ELSE cl[Len(cl)]
    IN  Flatten([k \in 1..Len(cl) |->
                    FilledUpTo(det, s, IF k = 1 THEN 1 ELSE cl[k - 1] + 1, cl[k])])
          \o SubSeq(s, last + 1, Len(s))

-----------------------------------------------------------------------------
(* Claims about the batch processor, checked under SpecBatch *)

BLogged(message, file) ==
    \E k \in 1..Len(b_log) : b_log[k] = [message |-> message, file |-> file]

Occurrences(list, x) == Cardinality({k \in 1..Len(list) : list[k] = x})

SingleFileSteps ==
    <<"extract_file", "analyze_excel_file", "generate_file_summary",
      "open file_summary.json">>

-----------------------------------------------------------------------------
(* SpecFormat: remove_formatting called on a sheet JSON *)

\* keys a cell of a sheet JSON can have
CellKeys == {"value", "formula", "Format"} \cup formatting_keys

CellValues == {"1", "total"}

\* the cells with at most MaxCellKeys keys
Cells ==
    { [k \in K |-> IF k = "value" THEN v ELSE "f"] :
        K \in {S \in SUBSET CellKeys : Cardinality(S) <= MaxCellKeys},
        v \in CellValues }

\* a second cell of a worksheet: empty, with a value, with formatting only
SecondCells ==
    { EmptyDict, [value |-> "2", Format |-> "f"], [font |-> "f"] }

\* worksheet['cells']: no cell, one cell, two cells
CellDicts ==
    {EmptyDict}
        \cup {("A1" :> c) : c \in Cells}
        \cup {("A1" :> c) @@ ("B2" :> d) : c \in Cells, d \in SecondCells}

AChart ==
    [ type |-> "bar", style |-> "f", plotArea |-> "f",
      legend |-> Boxed(TRUE, [position |-> "top", font |-> "f"]),
      title |-> Boxed(FALSE, EmptyDict),
      axes |-> [ x |-> Boxed(TRUE, [minimum |-> "0", format |-> "f"]),
                 y |-> Boxed(FALSE, EmptyDict) ],
      series |-> << [idx |-> "0", values |-> "A1:A3", marker |-> "f",
                     name |-> "s"] >> ]

\* the other keys of a worksheet: none, or charts, named items and tables
WorksheetExtras ==
    { EmptyDict,
      [ name |-> "n",
        charts |-> <<AChart>>,
        namedItems |-> << [name |-> "n", format |-> "f"] >>,
        tables |-> << [name |-> "t", tableStyleInfo |-> "f",
                       showHeaders |-> "f", highlightFirstColumn |-> "f"] >> ] }

Optional(present, key, value) == IF present THEN key :> value ELSE EmptyDict

Worksheets ==
    { Optional(props, "worksheetProperties", "f") @@ cells @@ extras :
        props \in BOOLEAN,
        cells \in {EmptyDict} \cup {("cells" :> cd) : cd \in CellDicts},
        extras \in WorksheetExtras }

\* a second worksheet
SecondWorksheets ==
    { [worksheetProperties |-> "f"],
      [cells |-> ("C3" :> [value |-> "3", style |-> "f"]) @@ ("D4" :> [fill |-> "f"])] }

\* sheet_json['worksheets']: no worksheet, one, two
WorksheetDicts ==
    {EmptyDict}
        \cup {("Sheet1" :> w) : w \in Worksheets}
        \cup {("Sheet1" :> w) @@ ("Sheet2" :> x) :
                 w \in Worksheets, x \in SecondWorksheets}

SheetJsons ==
    { Optional(meta, "meta", "f") @@ worksheets :
        meta \in BOOLEAN,
        worksheets \in {EmptyDict} \cup {("worksheets" :> wd) : wd \in WorksheetDicts} }

InitFormat ==
    /\ prompts = PipelinePrompts
    /\ details = PipelineDetails
    /\ u_call = NoCall
    /\ MainIdle
    /\ BatchIdle
    /\ rf_pc = "call"
    /\ sheet_json \in SheetJsons
    /\ sheet_json_arg = sheet_json
    /\ MoonshotIdle
    /\ ImagesIdle
    /\ ExtractIdle

NextFormat == RemoveFormatting

SpecFormat == InitFormat /\ [][NextFormat]_vars

-----------------------------------------------------------------------------
(* Claims about remove_formatting, checked under SpecFormat *)

\* the cells of the worksheets of a sheet JSON, as pairs <<worksheet, cell>>
CellRefs(sj) ==
    IF "worksheets" \in DOMAIN sj
    THEN UNION { {<<n, r>> : r \in IF "cells" \in DOMAIN sj.worksheets[n]
                                   THEN DOMAIN sj.worksheets[n].cells
                                   ELSE {}} :
                 n \in DOMAIN sj.worksheets }
    ELSE {}

CellAt(sj, ref) == sj.worksheets[ref[1]].cells[ref[2]]

-----------------------------------------------------------------------------
(* SpecMoonshot: generate_moonshot_test_cases on the rows of a workbook *)

\* the Data column: empty, 'Blank sheet', sheets of MoonshotBasic.xlsx and of
\* Context_Data.xlsm, a workbook name, a file name, several unknown names
DataChoices ==
    { <<>>, <<"blank sheet">>, <<"M1">>, <<"C1">>, <<"M1", "C1">>,
      <<"custom">>, <<"book.xlsx">>, <<"x", "y">> }

\* the Sheet/Context ID column: empty, or two sheet names
ContextChoices == { <<>>, <<"M2", "extra">> }

\* a row without its ID: one with no Item, and every Data and context
RowChoices ==
    { [Item |-> "", Data |-> <<"M1">>, Context |-> <<>>, tags |-> <<"MoonshotBasic">>] }
        \cup { [Item |-> "query", Data |-> d, Context |-> c,
                tags |-> <<"MoonshotBasic", "analysis">>] :
                 d \in DataChoices, c \in ContextChoices }

\* what WORKBOOK_DIR holds besides the two main workbooks
DirChoices == { {}, {"custom.xlsx"}, {"custom.xlsx", "book.xlsx", "x.xlsx"} }

\* the IDs of n rows, ascending or descending
IdOrders(n) == { [k \in 1..n |-> k], [k \in 1..n |-> n + 1 - k] }

InitMoonshot ==
    /\ prompts = PipelinePrompts
    /\ details = PipelineDetails
    /\ u_call = NoCall
    /\ MainIdle
    /\ BatchIdle
    /\ FormatIdle
    /\ ImagesIdle
    /\ ExtractIdle
    /\ ms_pc = "start"
    /\ workbook_dir \in {MainWorkbooks \cup d : d \in DirChoices}
    /\ filtered_data \in
          UNION { { [k \in 1..n |-> [ID |-> ids[k]] @@ rows[k]] :
                       rows \in [1..n -> RowChoices], ids \in IdOrders(n) } :
                  n \in 0..MaxRows }
    /\ ms_idx = 0
    /\ existing_workbooks = {}
    /\ valid_test_cases = <<>>
    /\ skipped_cases = <<>>
    /\ ms_json = <<>>

NextMoonshot == MoonshotStart \/ MoonshotRow \/ MoonshotDump

SpecMoonshot == InitMoonshot /\ [][NextMoonshot]_vars

-----------------------------------------------------------------------------
(* Claims about generate_moonshot_test_cases, checked under SpecMoonshot *)

NamesExistingWorkbook(test_case) ==
    /\ "workbook" \in DOMAIN test_case
    /\ \E w \in workbook_dir : test_case.workbook = <<"moonshotBasic/", w>>

\* C13: every test case in valid_test_cases, and so in the written JSON, names
\* a workbook that is MoonshotBasic.xlsx, Context_Data.xlsm or a file present
\* in the workbook directory, prefixed with 'moonshotBasic/'.
C13_OnlyExistingWorkbooks ==
    /\ \A k \in 1..Len(valid_test_cases) : NamesExistingWorkbook(valid_test_cases[k])
    /\ \A j \in 1..Len(ms_json) :
          \A k \in 1..Len(ms_json[j]) : NamesExistingWorkbook(ms_json[j][k])


-----------------------------------------------------------------------------
(* SpecImages: extract_images_from_excel on a workbook with embedded images *)

\* what the bytes of an image start with; the last is none of the known formats
Magics == {"\\x89PNG", "\\xff\\xd8", "GIF", "BM", "RIFF"}

SheetNames == <<"Sheet1", "Sheet2">>

\* the formats of the images of sheet s: every one in the first sheet
SheetMagics(s) == IF s = 1 THEN Magics ELSE {"\\x89PNG", "\\xff\\xd8"}

\* an image of sheet s without its anchor: readable with some bytes, or one
\* whose _data() raises
ImageChoices(s) ==
    { [readable |-> TRUE, data |-> [magic |-> m, body |-> "b"]] : m \in SheetMagics(s) }
        \cup { [readable |-> FALSE, data |-> [magic |-> "", body |-> ""]] }

\* worksheet._images of sheet s: at most MaxSheetImages images, anchored in the
\* cells of a column
ImageLists(s) ==
    UNION { { [k \in 1..n |-> [anchor |-> <<SheetNames[s], k>>] @@ imgs[k]] :
                 imgs \in [1..n -> ImageChoices(s)] } :
            n \in 0..MaxSheetImages }

InitImages ==
    /\ prompts = PipelinePrompts
    /\ details = PipelineDetails
    /\ u_call = NoCall
    /\ MainIdle
    /\ BatchIdle
    /\ FormatIdle
    /\ MoonshotIdle
    /\ ExtractIdle
    /\ img_pc = "start"
    /\ img_workbook \in
          { << [name |-> SheetNames[1], images |-> l] >> : l \in ImageLists(1) }
             \cup { << [name |-> SheetNames[1], images |-> l],
                       [name |-> SheetNames[2], images |-> m] >> :
                        l \in ImageLists(1), m \in ImageLists(2) }
    /\ img_sheet = 0
    /\ img_k = 0
    /\ image_count = 0
    /\ extracted_images = <<>>
    /\ image_files = EmptyDict
    /\ img_returned = <<>>

NextImages == ImagesStart \/ ImagesNextSheet \/ ImagesExtract \/ ImagesReturn

SpecImages == InitImages /\ [][NextImages]_vars

-----------------------------------------------------------------------------
(* Claims about extract_images_from_excel, checked under SpecImages *)

\* the images of the sheets before sheet s and of the first k of sheet s, in order
ImagesUpTo(s, k) ==
    Flatten([t \in 1..s |->
                IF t < s
                THEN [j \in 1..Len(img_workbook[t].images) |->
                         [sheet |-> img_workbook[t].name, img |-> img_workbook[t].images[j]]]
                ELSE [j \in 1..k |->
                         [sheet |-> img_workbook[t].name, img |-> img_workbook[t].images[j]]]])

\* the images the loops have gone through so far
ImagesMet ==
    CASE img_pc = "start" -> <<>>
      [] img_sheet > Len(img_workbook) -> ImagesUpTo(Len(img_workbook),
                                             Len(img_workbook[Len(img_workbook)].images))
      [] OTHER -> ImagesUpTo(img_sheet, img_k - 1)

ReadableMet == SelectSeq(ImagesMet, LAMBDA m : m.img.readable)

\* C14: every image met whose data can be read is saved and listed; the listed
\* images are named image1, image2, ... in the order met across the sheets,
\* with no gap and no number used twice; the number of entries equals the
\* counter; an image that raises is skipped and the others are still
\* extracted, so that the returned list holds every readable image of the
\* workbook.
C14_AllReadableImagesExtracted ==
    img_pc \in {"loop", "done"} =>
        /\ Len(extracted_images) = image_count
        /\ Len(extracted_images) = Len(ReadableMet)
        /\ \A k \in 1..Len(extracted_images) :
              /\ extracted_images[k].filename.number = k
              /\ extracted_images[k].sheet = ReadableMet[k].sheet
              /\ extracted_images[k].anchor = ReadableMet[k].img.anchor
              /\ extracted_images[k].filename \in DOMAIN image_files
              /\ image_files[extracted_images[k].filename] = ReadableMet[k].img.data
        /\ \A f \in DOMAIN image_files : f.number \in 1..image_count
        /\ img_pc = "done" =>
              /\ img_returned = <<extracted_images>>
              /\ Len(ImagesMet) =
                    Len(ImagesUpTo(Len(img_workbook),
                                   Len(img_workbook[Len(img_workbook)].images)))

\* a workbook whose first sheet holds an image that raises followed by a
\* readable one, and whose second sheet holds a readable image: both readable
\* images are returned, as image1 and image2
C14_Witness ==
    /\ img_pc = "done"
    /\ Len(img_workbook) = 2
    /\ Len(img_workbook[1].images) = 2
    /\ ~img_workbook[1].images[1].readable
    /\ img_workbook[1].images[2].readable
    /\ Len(img_workbook[2].images) = 1
    /\ img_workbook[2].images[1].readable
    /\ image_count = 2
    /\ extracted_images[2].sheet = "Sheet2"
    /\ extracted_images[2].filename.number = 2


-----------------------------------------------------------------------------
(* SpecStages: the prompts the stage functions of llm_caller.py and step3.py *)
(* build, on keywords, codes and themes drawn from bounded sets              *)

\* a line of keywords.txt, codes.txt or themes.txt: plain, or the text of a
\* placeholder
LineChoices == { <<"k">>, DATA, KEYWORDS, CODES, THEMES }

LineLists == UNION {[1..n -> LineChoices] : n \in 0..MaxPromptLines}

\* main.py's data_sample, and another text for the data parameter
DataSamples == { data_sample, KEYWORDS }

\* main.py's keywords_sample, a str
SampleChoices == { <<>>, <<"k">>, <<"k", NL, "k">> }

\* the call of a stage function on its arguments, one call in a behaviour:
\* the step, the placeholders with the text that replaces each, in the order
\* of the replace calls, and the prompt handed to run
StageCall(fn, step, inserted, prompt) ==
    u_call' = [fn |-> fn, arg |-> [step |-> step, inserted |-> inserted],
               result |-> prompt]

InitStages ==
    /\ prompts = PipelinePrompts
    /\ details = PipelineDetails
    /\ u_call = NoCall
    /\ MainIdle
    /\ BatchIdle
    /\ LibIdle

CallCreateCodes ==
    /\ u_call = NoCall
    /\ \E kws \in LineLists, data \in DataSamples :
          StageCall("create_codes", "step3",
                    << <<KEYWORDS, Join(<<NL>>, kws) \o <<NL>>>>,
                       <<DATA, data \o <<NL>>>> >>,
                    create_codes_prompt(kws, data))
    /\ UNCHANGED <<prompts, details, main_vars, batch_vars, lib_vars>>

CallStep3CreateCodes ==
    /\ u_call = NoCall
    /\ \E kws \in LineLists, data \in DataSamples :
          StageCall("step3.create_codes", "step3",
                    << <<KEYWORDS, Join(<<NL>>, kws)>>, <<DATA, data>> >>,
                    step3_create_codes_prompt(kws, data))
    /\ UNCHANGED <<prompts, details, main_vars, batch_vars, lib_vars>>

CallCreateThemes ==
    /\ u_call = NoCall
    /\ \E cds \in LineLists, sample \in SampleChoices :
          StageCall("create_themes", "step4",
                    << <<CODES, Join(<<NL>>, cds) \o <<NL>>>>,
                       <<KEYWORDS, Join(<<NL>>, Chars(sample)) \o <<NL>>>> >>,
                    create_themes_prompt(cds, sample))
    /\ UNCHANGED <<prompts, details, main_vars, batch_vars, lib_vars>>

CallCreateConcepts ==
    /\ u_call = NoCall
    /\ \E step \in {"step5", "step6"}, thms \in LineLists,
          cds \in {l \in LineLists : Len(l) <= 1}, sample \in SampleChoices :
          StageCall(IF step = "step5" THEN "create_concepts"
                    ELSE "create_conceptual_model", step,
                    << <<CODES, Join(<<NL>>, cds) \o <<NL>>>>,
                       <<KEYWORDS, Join(<<NL>>, Chars(sample)) \o <<NL>>>>,
                       <<THEMES, Join(<<NL>>, thms) \o <<NL>>>> >>,
                    create_concepts_prompt(step, thms, cds, sample))
    /\ UNCHANGED <<prompts, details, main_vars, batch_vars, lib_vars>>

NextStages ==
    CallCreateCodes \/ CallStep3CreateCodes \/ CallCreateThemes \/ CallCreateConcepts

SpecStages == InitStages /\ [][NextStages]_vars

-----------------------------------------------------------------------------
(* Claims about the stage functions, checked under SpecStages *)

\* the template s with every placeholder of inserted replaced by its text in
\* one pass from left to right; the text put in is not looked at again
RECURSIVE Substituted(_, _)
Substituted(s, inserted) ==
    IF s = <<>>
    THEN <<>>
    ELSE LET here == {k \in 1..Len(inserted) : OccursAt(s, inserted[k][1], 1)}
         IN  IF here = {}
             THEN <<Head(s)>> \o Substituted(Tail(s), inserted)
             ELSE LET k == Min(here)
                  IN  inserted[k][2]
                         \o Substituted(SubSeq(s, Len(inserted[k][1]) + 1, Len(s)),
                                        inserted)

\* the replace calls of inserted applied one after the other
RECURSIVE Chained(_, _)
Chained(s, inserted) ==
    IF inserted = <<>>
    THEN s
    ELSE Chained(Replace(s, Head(inserted)[1], Head(inserted)[2]), Tail(inserted))

Reversed(list) == [k \in 1..Len(list) |-> list[Len(list) + 1 - k]]

\* C17: in the prompts of create_codes, create_themes, create_concepts and
\* create_conceptual_model the text put in for a placeholder is sent verbatim,
\* whatever it holds, and the prompt does not depend on the order of the
\* replace calls.
C17_SubstitutionsIndependent ==
    u_call.fn # "none" =>
        LET template == get_prompt(prompts, details, u_call.arg.step)
        IN  /\ u_call.result = Substituted(template, u_call.arg.inserted)
            /\ u_call.result = Chained(template, Reversed(u_call.arg.inserted))

-----------------------------------------------------------------------------
(* SpecExtract: ExcelExtractor.extract_file on one Excel file, whose output *)
(* folder may hold the files of an earlier extraction                       *)

InitExtract ==
    LET FirstSheets  == [name : {"S1"}, formula : BOOLEAN, style : BOOLEAN,
                         chart : BOOLEAN, image : {"none", "saved", "unsaved"}]
        SecondSheets == { [name |-> "S2", formula |-> FALSE, style |-> FALSE,
                           chart |-> FALSE, image |-> "none"],
                          [name |-> "S2", formula |-> TRUE, style |-> FALSE,
                           chart |-> FALSE, image |-> "none"],
                          [name |-> "S2", formula |-> FALSE, style |-> TRUE,
                           chart |-> TRUE, image |-> "saved"] }
        SheetLists   == { <<a>> : a \in FirstSheets }
                           \cup { <<a, b>> : a \in FirstSheets, b \in SecondSheets }
        Earlier      == { {},
                          { <<"extraction_summary.json">> },
                          { <<"metadata/metadata.json">>, <<"data/", "Old", ".csv">> } }
    IN  /\ prompts = PipelinePrompts
        /\ details = PipelineDetails
        /\ u_call = NoCall
        /\ MainIdle
        /\ BatchIdle
        /\ FormatIdle
        /\ MoonshotIdle
        /\ ImagesIdle
        /\ ex_pc = "call"
        /\ ex_wb \in [sheets : SheetLists,
                      vba : {"none", "saved", "unopened", "unread"}]
        /\ ex_dir \in Earlier
        /\ ex_trace = <<>>
        /\ ex_summary = <<>>
        /\ ex_open = "unloaded"
        /\ ex_raised = "none"

NextExtract == ExtractStart \/ ExtractStep \/ CreateSummaryReport \/ ExtractClose

SpecExtract == InitExtract /\ [][NextExtract]_vars

-----------------------------------------------------------------------------
(* Claims about extract_file, checked under SpecExtract *)

\* the files the steps before the k-th one of this call have written
WrittenBefore(k) ==
    UNION { {ex_trace[j].wrote[m] : m \in 1..Len(ex_trace[j].wrote)} : j \in 1..(k - 1) }

\* C21: extract_file runs metadata, sheet data, formulas, styles, images,
\* charts, macros and the summary report in this order and closes the workbook
\* last; files_created of the summary report holds every file the seven steps
\* before it wrote; once a step has raised no later step runs, the workbook is
\* not closed, and the exception of that step is the one the caller gets.
C21_FixedOrderThenSummary ==
    LET order == <<"_extract_metadata", "_extract_sheet_data", "_extract_formulas",
                   "_extract_styles", "_extract_images", "_extract_charts",
                   "_extract_macros", "_create_summary_report", "close">>
        n     == Len(ex_trace)
        sum   == CHOOSE k \in 1..Len(order) : order[k] = "_create_summary_report"
    IN  /\ n <= Len(order)
        /\ \A k \in 1..n : ex_trace[k].step = order[k]
        /\ (ex_open = "closed") <=> (n = Len(order))
        /\ ex_pc = "returned" => n = Len(order) /\ ex_raised = "none"
        /\ Len(ex_summary) = (IF n >= sum /\ ~ex_trace[sum].raised THEN 1 ELSE 0)
        /\ \A j \in 1..Len(ex_summary) : WrittenBefore(sum) \subseteq ex_summary[j]
        /\ \A k \in 1..(n - 1) : ~ex_trace[k].raised
        /\ (ex_raised # "none") <=> (ex_pc = "raised")
        /\ (n > 0 /\ ex_trace[n].raised) =>
              /\ ex_pc = "raised"
              /\ ex_raised = ex_trace[n].step
              /\ ex_open = "open"
        /\ ex_pc = "raised" =>
              \/ n = 0 /\ ex_raised = "load_workbook"
              \/ n > 0 /\ ex_trace[n].raised

\* a call that returned, on a workbook whose formulas, styles, images, charts
\* and VBA part all gave files, into a folder that held an earlier summary
C21_Witness ==
    /\ ex_pc = "returned"
    /\ ex_open = "closed"
    /\ Len(ex_summary) = 1
    /\ { <<"formulas/formulas.json">>, <<"styles/styles.json">>,
         <<"images/", "S1", "_image_1.png">>, <<"charts/charts_info.json">>,
         <<"macros/vba_archive.bin">>, <<"data/", "S2", ".csv">>,
         <<"extraction_summary.json">> } \subseteq ex_summary[1]

\* a call that a step ended: _extract_images raised after it had written an image
C21_WitnessRaised ==
    /\ ex_pc = "raised"
    /\ ex_raised = "_extract_images"
    /\ ex_trace[Len(ex_trace)].wrote # <<>>

====
